---- MODULE Spec2Model ----
(***************************************************************************)
(* Verification model of the four-pillars (shichusuimei) chart engine of   *)
(* emaktaka/shichu.                                                        *)
(*                                                                         *)
(* Time is counted in "JST seconds": floor((utcMs + 9h) / 1000), the value *)
(* toJstSeconds() compares.  Stems (kan) are the indices 0..9 of STEMS,    *)
(* branches (shi) the indices 0..11 of BRANCHES:                           *)
(*   STEMS    0 甲 1 乙 2 丙 3 丁 4 戊 5 己 6 庚 7 辛 8 壬 9 癸              *)
(*   BRANCHES 0 子 1 丑 2 寅 3 卯 4 辰 5 巳 6 午 7 未 8 申 9 酉 10 戌 11 亥  *)
(***************************************************************************)
EXTENDS Integers, Sequences, FiniteSets, TLC

\* JavaScript null
NULL == [null |-> TRUE]

\* ------------------------------------------------------------------------
\* Sexagenary helpers
\* ------------------------------------------------------------------------
mod(a, m) == ((a % m) + m) % m

\* the branch taken from a table of ten
sexagenaryFromIndex_tenBranches(idx) == [kan |-> idx % 10, shi |-> idx % 10]

sexagenaryFromIndex(idx) == [kan |-> idx % 10, shi |-> idx % 12]

sexagenaryIndex(kan, shi) ==
  LET hits == {i \in 0..59 : sexagenaryFromIndex(i).kan = kan
                              /\ sexagenaryFromIndex(i).shi = shi}
  IN IF hits = {} THEN 0 ELSE CHOOSE i \in hits : \A j \in hits : i <= j

julianDayNumber(y, m, d) ==
  LET a  == (14 - m) \div 12
      y2 == y + 4800 - a
      m2 == m + 12 * a - 3
  IN d + ((153 * m2 + 2) \div 5) + 365 * y2 + (y2 \div 4) - (y2 \div 100)
       + (y2 \div 400) - 32045

\* ------------------------------------------------------------------------
\* JavaScript Date arithmetic, in JST seconds
\* ------------------------------------------------------------------------
\* julian day number of 1970-01-01, the origin of Date.UTC
EpochJdn == 2440588
DaySec == 86400

\* Math.floor((Date.UTC(y, m-1, d, hh-9, mm, ss) + 9*3600*1000) / 1000)
jstSecOf(y, m, d, hh, mm, ss) ==
  (julianDayNumber(y, m, d) - EpochJdn) * DaySec + hh * 3600 + mm * 60 + ss

\* getUTCFullYear / getUTCMonth+1 / getUTCDate of a day count since 1970-01-01
civilFromDays(z0) ==
  LET ymd(era, yoe, doy, mp, m) ==
        [y |-> yoe + era * 400 + (IF m <= 2 THEN 1 ELSE 0), m |-> m,
         d |-> doy - ((153 * mp + 2) \div 5) + 1]
      fromMp(era, yoe, doy, mp) ==
        ymd(era, yoe, doy, mp, IF mp < 10 THEN mp + 3 ELSE mp - 9)
      fromDoy(era, yoe, doy) == fromMp(era, yoe, doy, (5 * doy + 2) \div 153)
      fromYoe(era, doe, yoe) ==
        fromDoy(era, yoe, doe - (365 * yoe + (yoe \div 4) - (yoe \div 100)))
      fromDoe(era, doe) ==
        fromYoe(era, doe,
                (doe - (doe \div 1460) + (doe \div 36524) - (doe \div 146096))
                  \div 365)
      fromZ(z) == fromDoe(z \div 146097, z % 146097)
  IN fromZ(z0 + 719468)

\* the { y, m, d, hh, mm, ss, dateObjUtc } record of an instant; sec stands
\* for dateObjUtc (as JST seconds)
partsOfJstSec(sec) ==
  LET parts(c, sod) ==
        [y |-> c.y, m |-> c.m, d |-> c.d,
         hh |-> sod \div 3600, mm |-> (sod % 3600) \div 60, ss |-> sod % 60,
         sec |-> sec]
  IN parts(civilFromDays(sec \div DaySec), sec % DaySec)

addDaysJst(ymd, add) ==
  civilFromDays(julianDayNumber(ymd.y, ymd.m, ymd.d) - EpochJdn + add)

toJstSeconds(dt) == dt.sec

\* ------------------------------------------------------------------------
\* Input
\* ------------------------------------------------------------------------
\* body.time absent or "": normalizeInput keeps ""
NoTime == [empty |-> TRUE]

TimeModes == {"standard", "mean_solar", "true_solar"}
DayBoundaryModes == {"23", "24"}
BoundaryTimeRefs == {"standard", "used"}
Precisions == {"minute", "second"}
TieBreaks == {"after", "before"}

normalizeEnum(v, allowed, fallback) == IF v \in allowed THEN v ELSE fallback

\* normalizeInput for a body whose date and time are well formed
normalizeInput(body) ==
  [date |-> body.date,
   time |-> body.time,
   sex  |-> IF body.sex \in {"F", "M"} THEN body.sex ELSE "",
   pref |-> body.pref,
   timeMode |-> normalizeEnum(body.timeMode, TimeModes, "standard"),
   dayBoundaryMode |-> normalizeEnum(body.dayBoundaryMode, DayBoundaryModes, "24"),
   boundaryTimeRef |-> normalizeEnum(body.boundaryTimeRef, BoundaryTimeRefs, "used"),
   sekkiBoundaryPrecision |->
     normalizeEnum(body.sekkiBoundaryPrecision, Precisions, "minute"),
   sekkiBoundaryTieBreak |->
     normalizeEnum(body.sekkiBoundaryTieBreak, TieBreaks, "after")]

\* parseJstDateTime: a missing time is read as 12:00:00
parseJstDateTime(date, time) ==
  LET hh == IF time = NoTime THEN 12 ELSE time.hh
      mm == IF time = NoTime THEN 0 ELSE time.mm
      ss == IF time = NoTime THEN 0 ELSE time.ss
  IN [y |-> date.y, m |-> date.m, d |-> date.d, hh |-> hh, mm |-> mm, ss |-> ss,
      sec |-> jstSecOf(date.y, date.m, date.d, hh, mm, ss)]

\* PREF_LONGITUDE in hundredths of a degree (the prefectures the model uses;
\* an unknown prefecture gets 139.69)
PREF_LONGITUDE(pref) ==
  CASE pref = "Osaka" -> 13550
    [] pref = "Shizuoka" -> 13838
    [] pref = "Okinawa" -> 12768
    [] pref = "Tokyo" -> 13969
    [] OTHER           -> 13969

\* a variant of lonCorrectionMs: the minutes of the correction taken for hours
lonCorrectionMs_hours(pref) == (PREF_LONGITUDE(pref) - 13500) * 2400 * 60

\* getPlaceInfo: lonCorrectionMin = (longitude - 135.0) * 4.0 minutes, kept
\* in milliseconds: (lon100 - 13500) / 100 * 4 * 60000
lonCorrectionMs(pref) == (PREF_LONGITUDE(pref) - 13500) * 2400

\* ------------------------------------------------------------------------
\* Equation of time
\* computeEquationOfTimeMinutes is a harmonic series in
\* gamma = 2 pi / 365 * (doy - 1 + (UTC hour - 12) / 24): a function of the
\* civil birth instant that is constant within one UTC hour.  The table
\* holds floor(eq * 60000), the value in milliseconds, for the days and
\* hours the births of the model fall in (the last three are the instants
\* Date.UTC makes of 30 February, of 25 o'clock and of month 13).
\* ------------------------------------------------------------------------
computeEquationOfTimeMs(std) ==
  LET h == std.hh
  IN CASE std.y = 2024 /\ std.m = 2 /\ std.d = 4 /\ h = 11  -> 0 - 813557
       [] std.y = 2024 /\ std.m = 2 /\ std.d = 4 /\ h = 12  -> 0 - 813892
       [] std.y = 2024 /\ std.m = 2 /\ std.d = 4 /\ h = 17  -> 0 - 815547
       [] std.y = 2023 /\ std.m = 12 /\ std.d = 31 /\ h = 23 -> 0 - 149470
       [] std.y = 2024 /\ std.m = 1 /\ std.d = 1 /\ h = 0   -> 0 - 150600
       [] std.y = 2024 /\ std.m = 3 /\ std.d = 5 /\ h = 11  -> 0 - 720427
       [] std.y = 2024 /\ std.m = 7 /\ std.d = 20 /\ h = 12 -> 0 - 379313
       [] std.y = 2027 /\ std.m = 2 /\ std.d = 4 /\ h = 11  -> 0 - 813557
       [] std.y = 2024 /\ std.m = 2 /\ std.d = 30 /\ h = 17 -> 0 - 765280
       [] std.y = 2024 /\ std.m = 2 /\ std.d = 4 /\ h = 25  -> 0 - 818126
       [] std.y = 2024 /\ std.m = 13 /\ std.d = 4 /\ h = 17 -> 0 - 249537

\* computeUsedDateTimeJst: std + corrections.  The Date constructor drops the
\* fraction of a millisecond and toJstSeconds the fraction of a second, so
\* the corrected instant is std.sec + floor(addMs / 1000).
addMsOf(timeMode, lonMs, eqMs) ==
  CASE timeMode = "mean_solar" -> lonMs
    [] timeMode = "true_solar" -> lonMs + eqMs
    [] OTHER                   -> 0

computeUsedDateTimeJst(std, timeMode, lonMs, eqMs) ==
  partsOfJstSec(std.sec + (addMsOf(timeMode, lonMs, eqMs) \div 1000))

\* ------------------------------------------------------------------------
\* Boundary comparison at the policy precision
\* ------------------------------------------------------------------------
quantByPrecision(sec, precision) ==
  IF precision = "minute" THEN sec \div 60 ELSE sec

\* the instant and the boundary taken for one another
isBeforeBoundaryPrec_swapped(tSecRaw, boundarySecRaw, precision, tieBreak) ==
  LET t == quantByPrecision(boundarySecRaw, precision)
      b == quantByPrecision(tSecRaw, precision)
  IN IF t < b THEN TRUE
     ELSE IF t > b THEN FALSE
     ELSE tieBreak = "before"

isBeforeBoundaryPrec(tSecRaw, boundarySecRaw, precision, tieBreak) ==
  LET t == quantByPrecision(tSecRaw, precision)
      b == quantByPrecision(boundarySecRaw, precision)
  IN IF t < b THEN TRUE
     ELSE IF t > b THEN FALSE
     ELSE tieBreak = "before"

\* equality counts as reached whatever the tieBreak
isBoundaryInPastOrNow_always(boundarySecRaw, tSecRaw, precision, tieBreak) ==
  LET t == quantByPrecision(tSecRaw, precision)
      b == quantByPrecision(boundarySecRaw, precision)
  IN b <= t

isBoundaryInPastOrNow(boundarySecRaw, tSecRaw, precision, tieBreak) ==
  LET t == quantByPrecision(tSecRaw, precision)
      b == quantByPrecision(boundarySecRaw, precision)
  IN IF b < t THEN TRUE
     ELSE IF b > t THEN FALSE
     ELSE tieBreak = "after"

isBoundaryInFutureOrNow(boundarySecRaw, tSecRaw, precision, tieBreak) ==
  LET t == quantByPrecision(tSecRaw, precision)
      b == quantByPrecision(boundarySecRaw, precision)
  IN IF b > t THEN TRUE
     ELSE IF b < t THEN FALSE
     ELSE tieBreak = "before"

\* ------------------------------------------------------------------------
\* Solar terms
\* ------------------------------------------------------------------------
\* SEKKI_12, in the order of the source: angle of the k-th month boundary
SEKKI_12 == <<315, 345, 15, 45, 75, 105, 135, 165, 195, 225, 255, 285>>

jieIndexOf(angle) == CHOOSE k \in 1..12 : SEKKI_12[k] = angle

guessSolarTermDateJst(year, angle) ==
  LET md == CASE angle = 315 -> <<2, 4>>   [] angle = 330 -> <<2, 19>>
              [] angle = 345 -> <<3, 6>>   [] angle = 0   -> <<3, 21>>
              [] angle = 15  -> <<4, 5>>   [] angle = 30  -> <<4, 20>>
              [] angle = 45  -> <<5, 6>>   [] angle = 60  -> <<5, 21>>
              [] angle = 75  -> <<6, 6>>   [] angle = 90  -> <<6, 21>>
              [] angle = 105 -> <<7, 7>>   [] angle = 120 -> <<7, 23>>
              [] angle = 135 -> <<8, 8>>   [] angle = 150 -> <<8, 23>>
              [] angle = 165 -> <<9, 8>>   [] angle = 180 -> <<9, 23>>
              [] angle = 195 -> <<10, 8>>  [] angle = 210 -> <<10, 23>>
              [] angle = 225 -> <<11, 7>>  [] angle = 240 -> <<11, 22>>
              [] angle = 255 -> <<12, 7>>  [] angle = 270 -> <<12, 22>>
              [] angle = 285 -> <<1, 6>>   [] angle = 300 -> <<1, 20>>
              [] OTHER       -> <<3, 21>>
  IN [y |-> year, m |-> md[1], d |-> md[2]]

\* formatTermResultJst: timeJst is the instant cut to the minute, timeJstSec
\* keeps the second, secJst is the raw second the comparisons use
formatTermResultJst(sec, precision, angle) ==
  [angle |-> angle, timeJst |-> (sec \div 60) * 60, timeJstSec |-> sec,
   secJst |-> sec]

\* the fallback instant of findSolarTermTimeJst: noon JST of the guessed date
fallbackSecOf(year, angle) ==
  LET g == guessSolarTermDateJst(year, angle)
  IN jstSecOf(g.y, g.m, g.d, 12, 0, 0)

\* Where the hourly scan and the bisection of findSolarTermTimeJst end for
\* solarLongitudeDeg as the source defines it, in seconds after noon of the
\* guessed date: row = year, column = position in SEKKI_12.  The bisection
\* stops at a tolerance of 60 s ('minute') or 1 s ('second'), so the two
\* precisions end on different instants.
FirstTermYear == 2022

TermOffsetMinute ==
  << <<-22388, -44269, -27450, -52088, -37519, -732, -51750, -40950, 15862, 27787, 2475, -64238>>,
     <<-1519, -23457, -6638, -31275, -16763, 20025, -30994, -20138, 36675, 48656, 23287, -43369>>,
     <<19293, -88988, -72225, -96919, -82407, -45619, -96638, -85782, -28913, -16932, -42244, -22500>>,
     <<-46238, -68175, -51469, -76163, -61650, -24919, -75882, -65025, -8157, 3881, -21432, -88088>>,
     <<-25425, -47363, -30657, -55407, -40894, -4163, -55182, -44269, 12656, 24693, -563, -67219>>,
     <<-4557, -26550, -9844, -34594, -20138, 16593, -34425, -23457, 33468, 45562, 20306, -46350>>,
     <<16312, -92082, -75432, -100182, -85725, -49050, -100013, -89044, -32063, -19969, -45225, -25482>> >>

TermOffsetSecond ==
  << <<-22442, -44315, -27498, -52112, -37546, -770, -51781, -40951, 15840, 27787, 2424, -64284>>,
     <<-1564, -23458, -6669, -31314, -16772, 19992, -31015, -20169, 36648, 48620, 23275, -43397>>,
     <<19285, -89028, -72268, -96942, -82423, -45671, -96672, -85807, -28965, -16967, -42292, -22540>>,
     <<-46279, -68212, -51479, -76182, -61686, -24942, -75937, -65053, -8182, 3844, -21460, -88099>>,
     <<-25444, -47395, -30688, -55418, -40943, -4207, -55194, -44288, 12612, 24666, -616, -67258>>,
     <<-4594, -26560, -9879, -34634, -20178, 16552, -34427, -23498, 33430, 45515, 20256, -46404>>,
     <<16286, -92096, -75437, -100217, -85778, -49054, -100024, -89072, -32113, -19999, -45235, -25522>> >>

termOffsetOf(year, angle, precision) ==
  IF precision = "second"
    THEN TermOffsetSecond[year - FirstTermYear + 1][jieIndexOf(angle)]
    ELSE TermOffsetMinute[year - FirstTermYear + 1][jieIndexOf(angle)]

\* findSolarTermTimeJst as its callers see it.  eph is the ephemeris the
\* scan meets: "bracketed" is solarLongitudeDeg of the source, whose sign
\* change the scan finds; "unbracketed" is a longitude series without a
\* sign change in either search window, which ends in the fallback.
Ephemerides == {"bracketed", "unbracketed"}

findSolarTermTimeJst(year, angle, precision, eph) ==
  IF eph = "bracketed"
    THEN formatTermResultJst(fallbackSecOf(year, angle)
                               + termOffsetOf(year, angle, precision),
                             precision, angle)
    ELSE formatTermResultJst(fallbackSecOf(year, angle), precision, angle)

\* getSolarTermCached returns the cached value or computes and stores it;
\* the value is the same either way
getSolarTermCached(year, angle, precision, eph) ==
  findSolarTermTimeJst(year, angle, precision, eph)

\* ------------------------------------------------------------------------
\* Month boundary in force (12 jie)
\* ------------------------------------------------------------------------
\* the candidate list cand of getCurrentSekkiBoundary, in push order
currentCandidates(usedY, precision, eph) ==
  [i \in 1..24 |->
     getSolarTermCached(IF i % 2 = 1 THEN usedY ELSE usedY - 1,
                        SEKKI_12[(i + 1) \div 2], precision, eph)] \o <<>>

\* the loop over cand: the latest candidate that is in the past or now
RECURSIVE pickLatest(_, _, _, _, _, _)
pickLatest(cand, i, best, usedSec, precision, tieBreak) ==
  IF i > Len(cand) THEN best
  ELSE
    LET c  == cand[i]
        ok == isBoundaryInPastOrNow(c.secJst, usedSec, precision, tieBreak)
        nb == IF ~ok THEN best
              ELSE IF best = NULL THEN c
              ELSE LET bc == quantByPrecision(best.secJst, precision)
                       cc == quantByPrecision(c.secJst, precision)
                   IN IF cc > bc THEN c
                      ELSE IF cc = bc /\ c.secJst > best.secJst THEN c
                      ELSE best
    IN pickLatest(cand, i + 1, nb, usedSec, precision, tieBreak)

getCurrentSekkiBoundary(used, precision, tieBreak, eph) ==
  LET out(best) ==
        [angle |-> best.angle, timeJst |-> best.timeJst,
         timeJstSec |-> best.timeJstSec]
      orFallback(best0) ==
        out(IF best0 = NULL
              THEN getSolarTermCached(used.y - 1, 285, precision, eph)
              ELSE best0)
  IN orFallback(pickLatest(currentCandidates(used.y, precision, eph), 1, NULL,
                           toJstSeconds(used), precision, tieBreak))
\* ------------------------------------------------------------------------
\* Pillars
\* ------------------------------------------------------------------------
calcYearPillar(pillarYear) == sexagenaryFromIndex(mod(pillarYear - 1984, 60))

monthBranchFromBoundaryAngle(angle) ==
  CASE angle = 315 -> 2  [] angle = 345 -> 3  [] angle = 15  -> 4
    [] angle = 45  -> 5  [] angle = 75  -> 6  [] angle = 105 -> 7
    [] angle = 135 -> 8  [] angle = 165 -> 9  [] angle = 195 -> 10
    [] angle = 225 -> 11 [] angle = 255 -> 0  [] angle = 285 -> 1
    [] OTHER       -> 2

\* startMap of monthStemFromYearStem: year stem -> stem of the tiger month
monthStartStem(yearStem) ==
  CASE yearStem \in {0, 5} -> 2
    [] yearStem \in {1, 6} -> 4
    [] yearStem \in {2, 7} -> 6
    [] yearStem \in {3, 8} -> 8
    [] yearStem \in {4, 9} -> 0
    [] OTHER               -> 2

monthStemFromYearStem_tigerOnly(yearStem, monthBranch) == monthStartStem(yearStem)

\* order = tiger first: k is the position of the branch counted from 寅
monthStemFromYearStem(yearStem, monthBranch) ==
  mod(monthStartStem(yearStem) + mod(monthBranch - 2, 12), 10)

calcMonthPillar(used, yearStem, precision, tieBreak, eph) ==
  LET pillar(monthBranch) ==
        [kan |-> monthStemFromYearStem(yearStem, monthBranch),
         shi |-> monthBranch]
      fromBoundary(cur) == pillar(monthBranchFromBoundaryAngle(cur.angle))
  IN fromBoundary(getCurrentSekkiBoundary(used, precision, tieBreak, eph))

\* tMin >= boundaryMin with tMin = hh*60 + mm + ss/60, compared in seconds
calcDayPillar_neverMoved(std, used, dayBoundaryMode, boundaryTimeRef) ==
  LET ref == IF boundaryTimeRef = "standard" THEN std ELSE used
  IN sexagenaryFromIndex(mod(julianDayNumber(ref.y, ref.m, ref.d) + 47, 60))

calcDayPillar(std, used, dayBoundaryMode, boundaryTimeRef) ==
  LET ref         == IF boundaryTimeRef = "standard" THEN std ELSE used
      boundaryMin == IF dayBoundaryMode = "23" THEN 23 * 60 ELSE 24 * 60
      tSec        == (ref.hh * 60 + ref.mm) * 60 + ref.ss
      pillarOf(ymd) ==
        sexagenaryFromIndex(mod(julianDayNumber(ymd.y, ymd.m, ymd.d) + 47, 60))
  IN pillarOf(IF tSec >= boundaryMin * 60
                THEN addDaysJst([y |-> ref.y, m |-> ref.m, d |-> ref.d], 1)
                ELSE [y |-> ref.y, m |-> ref.m, d |-> ref.d])

hourBranchFromTime_fromMidnight(hh, mm) == (hh * 60 + mm) \div 120

hourBranchFromTime(hh, mm) ==
  LET t == hh * 60 + mm
  IN mod(IF t >= 23 * 60 THEN 0 ELSE (t + 60) \div 120, 12)

hourStartStem(dayStem) ==
  CASE dayStem \in {0, 5} -> 0
    [] dayStem \in {1, 6} -> 2
    [] dayStem \in {2, 7} -> 4
    [] dayStem \in {3, 8} -> 6
    [] dayStem \in {4, 9} -> 8
    [] OTHER              -> 0

hourStemFromDayStem(dayStem, hourBranch) ==
  mod(hourStartStem(dayStem) + hourBranch, 10)

\* an hour pillar from the default noon when the request carried no time
calcHourPillar_fabricated(used, dayStem, inputTimeRaw) ==
  LET branch == hourBranchFromTime(used.hh, used.mm)
  IN [kan |-> hourStemFromDayStem(dayStem, branch), shi |-> branch]

\* calcHourPillar: null when the request carried no time
calcHourPillar(used, dayStem, inputTimeRaw) ==
  IF inputTimeRaw = NoTime THEN NULL
  ELSE LET branch == hourBranchFromTime(used.hh, used.mm)
       IN [kan |-> hourStemFromDayStem(dayStem, branch), shi |-> branch]

\* ------------------------------------------------------------------------
\* Hidden stems, ten deities, five elements
\* ------------------------------------------------------------------------
\* ZOKAN, indexed by branch + 1
ZOKAN ==
  << <<9>>, <<5, 9, 7>>, <<0, 2, 4>>, <<1>>, <<4, 1, 9>>, <<2, 4, 6>>,
     <<3, 5>>, <<5, 3, 1>>, <<6, 8, 4>>, <<7>>, <<4, 7, 3>>, <<8, 0>> >>

getZokan(branch) == IF branch \in 0..11 THEN ZOKAN[branch + 1] ELSE <<>>

Elements == <<"wood", "fire", "earth", "metal", "water">>

STEM_INFO(stem) == [elem |-> Elements[(stem \div 2) + 1], yin |-> stem % 2 = 1]

\* gen and ctl of elementRelation
gen(e) == CASE e = "wood" -> "fire"  [] e = "fire" -> "earth"
            [] e = "earth" -> "metal" [] e = "metal" -> "water"
            [] e = "water" -> "wood"

ctl(e) == CASE e = "wood" -> "earth" [] e = "earth" -> "water"
            [] e = "water" -> "fire"  [] e = "fire" -> "metal"
            [] e = "metal" -> "wood"

\* elementRelation without its last test
elementRelation_fourTests(dayElem, otherElem) ==
  IF dayElem = otherElem THEN "same"
  ELSE IF gen(dayElem) = otherElem THEN "day_creates_other"
  ELSE IF gen(otherElem) = dayElem THEN "other_creates_day"
  ELSE IF ctl(dayElem) = otherElem THEN "day_controls_other"
  ELSE "none"

elementRelation(dayElem, otherElem) ==
  IF dayElem = otherElem THEN "same"
  ELSE IF gen(dayElem) = otherElem THEN "day_creates_other"
  ELSE IF gen(otherElem) = dayElem THEN "other_creates_day"
  ELSE IF ctl(dayElem) = otherElem THEN "day_controls_other"
  ELSE IF ctl(otherElem) = dayElem THEN "other_controls_day"
  ELSE "none"

\* null as a deity name
NoDeity == "null"

tenDeityOf(dayStem, otherStem) ==
  IF dayStem \notin 0..9 \/ otherStem \notin 0..9 THEN NoDeity
  ELSE
    LET d           == STEM_INFO(dayStem)
        o           == STEM_INFO(otherStem)
        sameYinYang == d.yin = o.yin
        rel         == elementRelation(d.elem, o.elem)
    IN CASE rel = "same"               -> IF sameYinYang THEN "hiken" ELSE "gozai"
         [] rel = "day_creates_other"  -> IF sameYinYang THEN "shokushin" ELSE "shokan"
         [] rel = "other_creates_day"  -> IF sameYinYang THEN "inju" ELSE "henin"
         [] rel = "day_controls_other" -> IF sameYinYang THEN "seizai" ELSE "henzai"
         [] rel = "other_controls_day" -> IF sameYinYang THEN "seikan" ELSE "shichisatsu"
         [] OTHER                      -> NoDeity

\* hourPillar?.kan and hourPillar?.shi of the handler: NoStem stands for
\* undefined
NoStem == 0 - 1

kanOf(pillar) == IF pillar = NULL THEN NoStem ELSE pillar.kan

shiOf(pillar) == IF pillar = NULL THEN NoStem ELSE pillar.shi

calcTenDeity(yearStem, monthStem, dayStem, hourStem) ==
  [year  |-> tenDeityOf(dayStem, yearStem),
   month |-> tenDeityOf(dayStem, monthStem),
   day   |-> "nisshu",
   hour  |-> IF hourStem = NoStem THEN NoDeity ELSE tenDeityOf(dayStem, hourStem)]

conv(br, dayStem) ==
  [i \in 1..Len(getZokan(br)) |->
     [stem |-> getZokan(br)[i], deity |-> tenDeityOf(dayStem, getZokan(br)[i])]]

calcZokanTenDeity(yearBranch, monthBranch, dayBranch, hourBranch, dayStem) ==
  [year  |-> conv(yearBranch, dayStem),
   month |-> conv(monthBranch, dayStem),
   day   |-> conv(dayBranch, dayStem),
   hour  |-> IF hourBranch = NoStem THEN <<>> ELSE conv(hourBranch, dayStem)]

\* the stems calcFiveElementsCounts counts: the given stems, then every
\* hidden stem of the given branches
RECURSIVE flatZokan(_)
flatZokan(branches) ==
  IF branches = <<>> THEN <<>>
  ELSE getZokan(Head(branches)) \o flatZokan(Tail(branches))

calcFiveElementsCounts(stems, branches) ==
  LET all == stems \o flatZokan(branches)
  IN [counts |->
        [e \in {"wood", "fire", "earth", "metal", "water"} |->
           Cardinality({i \in 1..Len(all) : STEM_INFO(all[i]).elem = e})]]

\* ------------------------------------------------------------------------
\* Luck (dayun / nenun)
\* ------------------------------------------------------------------------
\* the direction of a man for everyone
calcLuckDirection_sexBlind(sex, yearStem) ==
  IF yearStem \in {0, 2, 4, 6, 8} THEN "forward" ELSE "backward"

calcLuckDirection(sex, yearStem) ==
  LET isYang == yearStem \in {0, 2, 4, 6, 8}
  IN IF sex = "M" THEN (IF isYang THEN "forward" ELSE "backward")
     ELSE IF sex = "F" THEN (IF isYang THEN "backward" ELSE "forward")
     ELSE "backward"

\* the candidate list cand of calcStartDiffMinutesToJie, in push order:
\* prev, cur, next year of every month boundary
startCandidates(usedY, precision, eph) ==
  [i \in 1..36 |->
     getSolarTermCached(usedY - 1 + ((i - 1) % 3),
                        SEKKI_12[((i - 1) \div 3) + 1], precision, eph)] \o <<>>

\* the loop of the forward branch: the earliest candidate in the future or now
RECURSIVE pickEarliest(_, _, _, _, _, _)
pickEarliest(cand, i, best, usedSec, precision, tieBreak) ==
  IF i > Len(cand) THEN best
  ELSE
    LET c  == cand[i]
        ok == isBoundaryInFutureOrNow(c.secJst, usedSec, precision, tieBreak)
        nb == IF ~ok THEN best
              ELSE IF best = NULL THEN c
              ELSE LET bc == quantByPrecision(best.secJst, precision)
                       cc == quantByPrecision(c.secJst, precision)
                   IN IF cc < bc THEN c
                      ELSE IF cc = bc /\ c.secJst < best.secJst THEN c
                      ELSE best
    IN pickEarliest(cand, i + 1, nb, usedSec, precision, tieBreak)

\* cand.sort(...)[0]: the candidate of least (sign = 1) or greatest
\* (sign = -1) secJst
sortedFirst(cand, sign) ==
  cand[CHOOSE i \in 1..Len(cand) :
         \A j \in 1..Len(cand) : sign * cand[i].secJst <= sign * cand[j].secJst]

\* calcStartDiffMinutesToJie, in seconds (diffMin * 60)
calcStartDiffMinutesToJie(used, direction, precision, tieBreak, eph) ==
  LET usedSec == toJstSeconds(used)
      forward(cand) ==
        LET toBoundary(b0) ==
              (IF b0 = NULL THEN sortedFirst(cand, 1) ELSE b0).secJst - usedSec
        IN toBoundary(pickEarliest(cand, 1, NULL, usedSec, precision, tieBreak))
      backward(cand) ==
        LET fromBoundary(b0) ==
              usedSec - (IF b0 = NULL THEN sortedFirst(cand, 0 - 1) ELSE b0).secJst
        IN fromBoundary(pickLatest(cand, 1, NULL, usedSec, precision, tieBreak))
      diff(cand) ==
        IF direction = "forward" THEN forward(cand) ELSE backward(cand)
  IN diff(startCandidates(used.y, precision, eph))

\* three days of life count as one year: 3 * 24 * 60 minutes, in seconds
ThreeDaysSec == 259200

\* toAgeDetail(diffMin / (3*24*60)), on the seconds of the difference:
\* months = floor(rem * 12), days = round(rem of the month * 30)
toAgeDetail(diffSec) ==
  LET y    == diffSec \div ThreeDaysSec
      rem  == diffSec - y * ThreeDaysSec
      mo   == (rem * 12) \div ThreeDaysSec
      remM == rem * 12 - mo * ThreeDaysSec
  IN [years |-> y, months |-> mo,
      days |-> (remM * 30 * 2 + ThreeDaysSec) \div (2 * ThreeDaysSec)]

stepIdx(idx, direction) ==
  IF direction = "forward" THEN mod(idx + 1, 60) ELSE mod(idx - 1, 60)

RECURSIVE stepIdxN(_, _, _)
stepIdxN(idx, direction, n) ==
  IF n = 0 THEN idx ELSE stepIdxN(stepIdx(idx, direction), direction, n - 1)

buildDayunList(monthPillar, direction) ==
  LET idx0 == sexagenaryIndex(monthPillar.kan, monthPillar.shi)
  IN [i \in 1..10 |->
        LET p == sexagenaryFromIndex(stepIdxN(idx0, direction, i))
        IN [kan |-> p.kan, shi |-> p.shi,
            tenDeity |-> tenDeityOf(monthPillar.kan, p.kan),
            ageFrom |-> (i - 1) * 10, ageTo |-> (i - 1) * 10 + 10]] \o <<>>

\* nowJstDateParts: the JST calendar fields of new Date()
nowJstDateParts(now) ==
  LET fields(p) ==
        [y |-> p.y, m |-> p.m, d |-> p.d, hh |-> p.hh, mm |-> p.mm, ss |-> p.ss]
  IN fields(partsOfJstSec(now))

\* floor(diffDays / 365.2425)
calcAgeYears(birthStd, nowJst) ==
  LET diffDays == julianDayNumber(nowJst.y, nowJst.m, nowJst.d)
                    - julianDayNumber(birthStd.y, birthStd.m, birthStd.d)
  IN (diffDays * 10000) \div 3652425

findCurrentDayunIndex(dayun, ageYears) ==
  LET hits == {i \in 1..Len(dayun) :
                 ageYears >= dayun[i].ageFrom /\ ageYears < dayun[i].ageTo}
  IN IF hits = {} THEN 0 - 1
     ELSE (CHOOSE i \in hits : \A j \in hits : i <= j) - 1

calcNenunYearByRisshun(nowJst, precision, tieBreak, eph) ==
  LET risshun   == getSolarTermCached(nowJst.y, 315, precision, eph)
      nowSecJst == jstSecOf(nowJst.y, nowJst.m, nowJst.d,
                            nowJst.hh, nowJst.mm, nowJst.ss)
  IN IF isBeforeBoundaryPrec(nowSecJst, risshun.secJst, precision, tieBreak)
       THEN nowJst.y - 1 ELSE nowJst.y

buildNenunList(centerYearByRisshun) ==
  [i \in 1..13 |->
     LET y == centerYearByRisshun - 6 + (i - 1)
         p == calcYearPillar(y)
     IN [pillarYear |-> y, kan |-> p.kan, shi |-> p.shi, tenDeity |-> NoDeity]]
  \o <<>>

\* nenun.findIndex(x => x.pillarYear === nenunYearByRisshun)
findNenunIndex(nenun, year) ==
  LET hits == {i \in 1..Len(nenun) : nenun[i].pillarYear = year}
  IN IF hits = {} THEN 0 - 1
     ELSE (CHOOSE i \in hits : \A j \in hits : i <= j) - 1

\* calcLuckAll, the values in the order the source computes them
calcLuckAll(used, sex, yearStem, monthPillar, precision, tieBreak, birthStd, now, eph) ==
  LET out(direction, diffSec, dayun, ageYears, currentDayunIndex,
          nenunYearByRisshun, nenun, currentNenunIndex) ==
        [direction |-> direction,
         startDiffMinutes |-> (diffSec + 30) \div 60,
         startAgeYears |-> diffSec \div ThreeDaysSec,
         startAgeDetail |-> toAgeDetail(diffSec),
         current |->
           [asOfDateUsed |-> NULL,
            ageYears |-> ageYears,
            currentDayunIndex |->
              IF currentDayunIndex < 0 THEN 0 ELSE currentDayunIndex,
            currentNenunIndex |->
              IF currentNenunIndex < 0 THEN 0 ELSE currentNenunIndex,
            nenunYearByRisshun |-> nenunYearByRisshun],
         dayun |-> dayun,
         nenun |-> nenun,
         currentNenun |->
           IF currentNenunIndex >= 0 THEN nenun[currentNenunIndex + 1] ELSE NULL,
         currentDayun |->
           IF currentDayunIndex >= 0 THEN dayun[currentDayunIndex + 1] ELSE NULL]
      withNenun(direction, diffSec, dayun, ageYears, currentDayunIndex,
                nenunYearByRisshun, nenun) ==
        out(direction, diffSec, dayun, ageYears, currentDayunIndex,
            nenunYearByRisshun, nenun,
            findNenunIndex(nenun, nenunYearByRisshun))
      withNenunYear(direction, diffSec, dayun, ageYears, currentDayunIndex,
                    nenunYearByRisshun) ==
        withNenun(direction, diffSec, dayun, ageYears, currentDayunIndex,
                  nenunYearByRisshun, buildNenunList(nenunYearByRisshun))
      withAge(direction, diffSec, dayun, nowJst, ageYears) ==
        withNenunYear(direction, diffSec, dayun, ageYears,
                      findCurrentDayunIndex(dayun, ageYears),
                      calcNenunYearByRisshun(nowJst, precision, tieBreak, eph))
      withNow(direction, diffSec, dayun, nowJst) ==
        withAge(direction, diffSec, dayun, nowJst,
                calcAgeYears(birthStd, nowJst))
      withDirection(direction) ==
        withNow(direction,
                calcStartDiffMinutesToJie(used, direction, precision,
                                          tieBreak, eph),
                buildDayunList(monthPillar, direction),
                nowJstDateParts(now))
  IN withDirection(calcLuckDirection(sex, yearStem))
\* ------------------------------------------------------------------------
\* The handler of /api/shichusuimei, from the parsed body to the response
\* ------------------------------------------------------------------------
pillarOut(p) == [kan |-> p.kan, shi |-> p.shi, zokan |-> getZokan(p.shi)]

\* { timeJst, timeJstSec only under 'second' }
termOut(t, precision) ==
  IF precision = "second"
    THEN [timeJst |-> t.timeJst, timeJstSec |-> t.timeJstSec]
    ELSE [timeJst |-> t.timeJst]

\* the handler from the parsed body to the four pillars; every value is
\* computed once and handed on, in the order of the source
handlerCore(body, eph) ==
  LET out(input, lonMs, std, eqTimeMs, used, risshunThisYear,
          yearPillarYearUsed, sekkiUsed, yearPillar, dayPillar) ==
        LET precision == input.sekkiBoundaryPrecision
            tieBreak  == input.sekkiBoundaryTieBreak
        IN [input |-> input, std |-> std, used |-> used,
            meta |->
              [standard |-> [y |-> std.y, m |-> std.m, d |-> std.d,
                             hh |-> std.hh, mm |-> std.mm],
               used |->
                 [y |-> used.y, m |-> used.m, d |-> used.d,
                  hh |-> used.hh, mm |-> used.mm,
                  sekkiUsed |-> [angle |-> sekkiUsed.angle,
                                 time |-> termOut(sekkiUsed, precision)],
                  yearBoundary |-> termOut(risshunThisYear, precision),
                  yearPillarYearUsed |-> yearPillarYearUsed,
                  yearBoundaryCheck |->
                    [standardIsBeforeRisshun |->
                       isBeforeBoundaryPrec(toJstSeconds(std),
                                            risshunThisYear.secJst,
                                            precision, tieBreak),
                     usedIsBeforeRisshun |->
                       isBeforeBoundaryPrec(toJstSeconds(used),
                                            risshunThisYear.secJst,
                                            precision, tieBreak)]],
               place |->
                 [pref |-> input.pref, lonCorrectionMs |-> lonMs,
                  eqTimeMs |->
                    IF input.timeMode = "true_solar" THEN eqTimeMs ELSE 0]],
            year  |-> yearPillar,
            month |-> calcMonthPillar(used, yearPillar.kan, precision,
                                      tieBreak, eph),
            day   |-> dayPillar,
            hour  |-> calcHourPillar(used, dayPillar.kan, input.time)]
      withYear(input, lonMs, std, eqTimeMs, used, risshunThisYear,
               yearPillarYearUsed) ==
        out(input, lonMs, std, eqTimeMs, used, risshunThisYear,
            yearPillarYearUsed,
            getCurrentSekkiBoundary(used, input.sekkiBoundaryPrecision,
                                    input.sekkiBoundaryTieBreak, eph),
            calcYearPillar(yearPillarYearUsed),
            calcDayPillar(std, used, input.dayBoundaryMode,
                          input.boundaryTimeRef))
      \* yearPillarYearUsed = usedIsBeforeRisshun ? used.y - 1 : used.y
      withRisshun(input, lonMs, std, eqTimeMs, used, risshunThisYear) ==
        withYear(input, lonMs, std, eqTimeMs, used, risshunThisYear,
                 IF isBeforeBoundaryPrec(toJstSeconds(used),
                                         risshunThisYear.secJst,
                                         input.sekkiBoundaryPrecision,
                                         input.sekkiBoundaryTieBreak)
                   THEN used.y - 1 ELSE used.y)
      withUsed(input, lonMs, std, eqTimeMs, used) ==
        withRisshun(input, lonMs, std, eqTimeMs, used,
                    getSolarTermCached(used.y, 315,
                                       input.sekkiBoundaryPrecision, eph))
      withStd(input, lonMs, std, eqTimeMs) ==
        withUsed(input, lonMs, std, eqTimeMs,
                 computeUsedDateTimeJst(std, input.timeMode, lonMs, eqTimeMs))
      withInput(input, std) ==
        withStd(input, lonCorrectionMs(input.pref), std,
                computeEquationOfTimeMs(std))
      withBody(input) ==
        withInput(input, parseJstDateTime(input.date, input.time))
  IN withBody(normalizeInput(body))

\* the handler: the response body of a POST
handler(body, now, eph) ==
  LET respond(core) ==
        LET input        == core.input
            yearPillar   == core.year
            monthPillar  == core.month
            dayPillar    == core.day
            hourPillar   == core.hour
            hourStems    == IF hourPillar = NULL THEN <<>> ELSE <<hourPillar.kan>>
            hourBranches == IF hourPillar = NULL THEN <<>> ELSE <<hourPillar.shi>>
        IN [ok |-> TRUE,
            input |-> input,
            meta |-> core.meta,
            pillars |->
              [year  |-> pillarOut(yearPillar),
               month |-> pillarOut(monthPillar),
               day   |-> pillarOut(dayPillar),
               hour  |-> IF hourPillar = NULL THEN NULL
                         ELSE pillarOut(hourPillar)],
            derived |->
              [tenDeity |-> calcTenDeity(yearPillar.kan, monthPillar.kan,
                                         dayPillar.kan, kanOf(hourPillar)),
               zokanTenDeity |->
                 calcZokanTenDeity(yearPillar.shi, monthPillar.shi,
                                   dayPillar.shi, shiOf(hourPillar),
                                   dayPillar.kan),
               fiveElements |->
                 calcFiveElementsCounts(
                   <<yearPillar.kan, monthPillar.kan, dayPillar.kan>>
                     \o hourStems,
                   <<yearPillar.shi, monthPillar.shi, dayPillar.shi>>
                     \o hourBranches),
               luck |-> calcLuckAll(core.used, input.sex, yearPillar.kan,
                                    monthPillar, input.sekkiBoundaryPrecision,
                                    input.sekkiBoundaryTieBreak, core.std,
                                    now, eph)]]
  IN respond(handlerCore(body, eph))
\* ------------------------------------------------------------------------
\* The "Phase B+" handler without the precision fix (CommonJS revision)
\* Its input parsing, time correction, solver and pillar tables are those of
\* the handler above; its boundary comparisons are its own.
\* ------------------------------------------------------------------------
\* compares the raw seconds, whatever the precision
isBeforeBoundary(tSec, boundarySec, tieBreak) ==
  IF tieBreak = "before" THEN tSec <= boundarySec ELSE tSec < boundarySec

\* the loop of this revision's getCurrentSekkiBoundary: ok is
\* c.secJst <= usedSec under either tieBreak, best is the greatest secJst
RECURSIVE PhaseB_pickLatest(_, _, _, _, _)
PhaseB_pickLatest(cand, i, best, usedSec, tieBreak) ==
  IF i > Len(cand) THEN best
  ELSE
    LET c                 == cand[i]
        isBeforeOrEq      == IF tieBreak = "before" THEN c.secJst <= usedSec
                             ELSE c.secJst < usedSec
        isBeforeOrEqAfter == IF tieBreak = "after" THEN c.secJst <= usedSec
                             ELSE c.secJst < usedSec
        ok                == IF tieBreak = "after" THEN isBeforeOrEqAfter
                             ELSE isBeforeOrEq
        nb == IF ~ok THEN best
              ELSE IF best = NULL THEN c
              ELSE IF c.secJst > best.secJst THEN c ELSE best
    IN PhaseB_pickLatest(cand, i + 1, nb, usedSec, tieBreak)

PhaseB_getCurrentSekkiBoundary(used, precision, tieBreak, eph) ==
  LET out(best) ==
        [angle |-> best.angle, timeJst |-> best.timeJst,
         timeJstSec |-> best.timeJstSec]
      orFallback(best0) ==
        out(IF best0 = NULL
              THEN findSolarTermTimeJst(used.y - 1, 285, precision, eph)
              ELSE best0)
  IN orFallback(PhaseB_pickLatest(currentCandidates(used.y, precision, eph), 1,
                                  NULL, toJstSeconds(used), tieBreak))

PhaseB_handler(body, eph) ==
  LET out(used, risshunThisYear, sekkiUsed, yearPillarYearUsed, yearPillar,
          sekkiUsedAngle, monthBranch) ==
        [usedYear |-> used.y,
         yearBoundary |-> risshunThisYear.timeJst,
         sekkiUsedTime |-> sekkiUsed.timeJst,
         yearPillarYearUsed |-> yearPillarYearUsed,
         sekkiUsedAngle |-> sekkiUsedAngle,
         year  |-> yearPillar,
         month |-> [kan |-> monthStemFromYearStem(yearPillar.kan, monthBranch),
                    shi |-> monthBranch]]
      withYear(input, used, risshunThisYear, yearPillarYearUsed, sekkiUsed) ==
        out(used, risshunThisYear, sekkiUsed, yearPillarYearUsed,
            calcYearPillar(yearPillarYearUsed),
            sekkiUsed.angle, monthBranchFromBoundaryAngle(sekkiUsed.angle))
      \* yearPillarYearUsed = usedIsBeforeRisshun ? used.y - 1 : used.y
      withRisshun(input, used, risshunThisYear) ==
        withYear(input, used, risshunThisYear,
                 IF isBeforeBoundary(toJstSeconds(used), risshunThisYear.secJst,
                                     input.sekkiBoundaryTieBreak)
                   THEN used.y - 1 ELSE used.y,
                 PhaseB_getCurrentSekkiBoundary(used,
                                                input.sekkiBoundaryPrecision,
                                                input.sekkiBoundaryTieBreak,
                                                eph))
      withUsed(input, used) ==
        withRisshun(input, used,
                    findSolarTermTimeJst(used.y, 315,
                                         input.sekkiBoundaryPrecision, eph))
      withStd(input, std) ==
        withUsed(input,
                 computeUsedDateTimeJst(std, input.timeMode,
                                        lonCorrectionMs(input.pref),
                                        computeEquationOfTimeMs(std)))
      withBody(input) ==
        withStd(input, parseJstDateTime(input.date, input.time))
  IN withBody(normalizeInput(body))

\* this revision's calcNenunYearByRisshun: 'tieBreak not needed for "now"'
PhaseB_calcNenunYearByRisshun(nowJst, precision, eph) ==
  LET risshun == findSolarTermTimeJst(nowJst.y, 315, precision, eph)
      nowSec  == jstSecOf(nowJst.y, nowJst.m, nowJst.d,
                          nowJst.hh, nowJst.mm, nowJst.ss)
  IN IF nowSec < risshun.secJst THEN nowJst.y - 1 ELSE nowJst.y

\* ------------------------------------------------------------------------
\* The calendar handler ("Part 1/3"): boundaries by calendar day
\* ------------------------------------------------------------------------
isBeforeDate(std, md) ==
  IF std.m < md.m THEN TRUE
  ELSE IF std.m > md.m THEN FALSE
  ELSE std.d < md.d

Calendar_handler(body) ==
  LET out(yearForPillar) ==
        [yearPillarYearUsed |-> yearForPillar,
         year |-> calcYearPillar(yearForPillar)]
      withStd(std) ==
        out(IF isBeforeDate(std, [m |-> 2, d |-> 4]) THEN std.y - 1 ELSE std.y)
  IN withStd(parseJstDateTime(body.date, body.time))

\* MONTH_BOUNDARIES of the calendar revision, in list order; branch is the
\* position in BRANCHES
MONTH_BOUNDARIES ==
  << [m |-> 2,  d |-> 4, angle |-> 315, branch |-> 2],
     [m |-> 3,  d |-> 6, angle |-> 345, branch |-> 3],
     [m |-> 4,  d |-> 5, angle |-> 15,  branch |-> 4],
     [m |-> 5,  d |-> 6, angle |-> 45,  branch |-> 5],
     [m |-> 6,  d |-> 6, angle |-> 75,  branch |-> 6],
     [m |-> 7,  d |-> 7, angle |-> 105, branch |-> 7],
     [m |-> 8,  d |-> 8, angle |-> 135, branch |-> 8],
     [m |-> 9,  d |-> 8, angle |-> 165, branch |-> 9],
     [m |-> 10, d |-> 8, angle |-> 195, branch |-> 10],
     [m |-> 11, d |-> 7, angle |-> 225, branch |-> 11],
     [m |-> 12, d |-> 7, angle |-> 255, branch |-> 0],
     [m |-> 1,  d |-> 6, angle |-> 285, branch |-> 1] >>

\* getMonthBoundaryByDate: best is overwritten by every entry that passes,
\* so it ends as the last entry of the list that passes; the last entry of
\* all when none does
getMonthBoundaryByDate(std) ==
  LET passes == {k \in 1..Len(MONTH_BOUNDARIES) :
                   \/ std.m > MONTH_BOUNDARIES[k].m
                   \/ (std.m = MONTH_BOUNDARIES[k].m /\ std.d >= MONTH_BOUNDARIES[k].d)}
  IN IF passes = {} THEN MONTH_BOUNDARIES[Len(MONTH_BOUNDARIES)]
     ELSE MONTH_BOUNDARIES[CHOOSE k \in passes : \A o \in passes : o <= k]

calcMonthPillarFromBoundary(boundary, yearStem) ==
  [kan |-> monthStemFromYearStem(yearStem, boundary.branch),
   shi |-> boundary.branch]

\* tenDeityOf of part_002
PhaseB_tenDeityOf(dayStem, otherStem) ==
  IF dayStem \notin 0..9 \/ otherStem \notin 0..9 THEN NoDeity
  ELSE
    LET d           == STEM_INFO(dayStem)
        o           == STEM_INFO(otherStem)
        sameYinYang == d.yin = o.yin
        rel         == elementRelation(d.elem, o.elem)
    IN CASE rel = "same"               -> IF sameYinYang THEN "hiken" ELSE "gozai"
         [] rel = "day_creates_other"  -> IF sameYinYang THEN "shokushin" ELSE "shokan"
         [] rel = "other_creates_day"  -> IF sameYinYang THEN "inju" ELSE "henin"
         [] rel = "day_controls_other" -> IF sameYinYang THEN "seizai" ELSE "henzai"
         [] rel = "other_controls_day" -> IF sameYinYang THEN "seikan" ELSE "shichisatsu"
         [] OTHER                      -> NoDeity

\* ------------------------------------------------------------------------
\* The "Phase D" handler on lib/sekki.js
\* Instants are pairs <<JST second, millisecond>>: it compares milliseconds.
\* ------------------------------------------------------------------------
msBefore(a, b) == a[1] < b[1] \/ (a[1] = b[1] /\ a[2] < b[2])

\* JIE12_FOR_MONTH of lib/sekki.js (the order of SEKKI_12)
JIE12_FOR_MONTH == SEKKI_12

FirstJieYear == 2022

\* findTimeForSolarLongitudeUtc(angle, approxJdForTargetLongitude(year, angle), 4)
\* for solarApparentLongitudeDegUtc as the source defines it: row = year,
\* column = position in JIE12_FOR_MONTH.  The approximation starts from
\* 20 March of the year and goes back for the angles 195, 225 and 255, whose
\* instants lie in the year before.
Jie12Found ==
  << << <<1643953557, 573>>, <<1646523685, 32>>, <<1649132502, 298>>, <<1651786287, 964>>,
        <<1654479254, 84>>, <<1657194429, 225>>, <<1659908219, 63>>, <<1662597448, 569>>,
        <<1633689399, 235>>, <<1636293322, 103>>, <<1638859942, 732>>, <<1641406116, 286>> >>,
     << <<1675510435, 949>>, <<1678080542, 636>>, <<1680689330, 960>>, <<1683343086, 237>>,
        <<1686036028, 167>>, <<1688751191, 636>>, <<1691464985, 75>>, <<1694154231, 606>>,
        <<1665246240, 269>>, <<1667850186, 661>>, <<1670416824, 155>>, <<1672963002, 994>> >>,
     << <<1707067285, 784>>, <<1709637372, 362>>, <<1712246132, 344>>, <<1714899857, 898>>,
        <<1717592776, 490>>, <<1720307929, 390>>, <<1723021727, 774>>, <<1725710992, 842>>,
        <<1696803048, 69>>, <<1699407019, 465>>, <<1701973675, 130>>, <<1704519860, 321>> >>,
     << <<1738624120, 616>>, <<1741194188, 117>>, <<1743802920, 791>>, <<1746456617, 724>>,
        <<1749149514, 192>>, <<1751864657, 860>>, <<1754578462, 619>>, <<1757267747, 679>>,
        <<1728359835, 629>>, <<1730963833, 535>>, <<1733530508, 757>>, <<1736076701, 540>> >>,
     << <<1770180955, 680>>, <<1772751005, 395>>, <<1775359712, 108>>, <<1778013381, 826>>,
        <<1780706257, 615>>, <<1783421393, 472>>, <<1786135205, 951>>, <<1788824512, 248>>,
        <<1759916618, 225>>, <<1762520644, 13>>, <<1765087340, 97>>, <<1767633541, 732>> >>,
     << <<1801737806, 183>>, <<1804307839, 509>>, <<1806916521, 775>>, <<1809570165, 839>>,
        <<1812263022, 447>>, <<1814978151, 839>>, <<1817691973, 154>>, <<1820381301, 572>>,
        <<1791473411, 690>>, <<1794077466, 440>>, <<1796644184, 466>>, <<1799190396, 102>> >>,
     << <<1833294685, 588>>, <<1835864703, 878>>, <<1838473363, 202>>, <<1841126983, 142>>,
        <<1843819821, 967>>, <<1846534946, 8>>, <<1849248776, 919>>, <<1851938127, 885>>,
        <<1823030230, 632>>, <<1825634315, 5>>, <<1828201055, 706>>, <<1830747278, 244>> >> >>

\* fromJulianDay(approxJd): what findTimeForSolarLongitudeUtc returns when
\* no window up to 8 days brackets a sign change
Jie12Approx ==
  << << <<1643878083, 937>>, <<1646507827, 703>>, <<1649137571, 468>>, <<1651767315, 234>>,
        <<1654397059, 0>>, <<1657026802, 765>>, <<1659656546, 531>>, <<1662286290, 296>>,
        <<1633359108, 875>>, <<1635988852, 641>>, <<1638618596, 406>>, <<1641248340, 172>> >>,
     << <<1675435100, 636>>, <<1678064844, 401>>, <<1680694588, 167>>, <<1683324331, 932>>,
        <<1685954075, 698>>, <<1688583819, 464>>, <<1691213563, 229>>, <<1693843306, 995>>,
        <<1664916125, 574>>, <<1667545869, 339>>, <<1670175613, 105>>, <<1672805356, 870>> >>,
     << <<1706991382, 452>>, <<1709621126, 217>>, <<1712250869, 983>>, <<1714880613, 748>>,
        <<1717510357, 514>>, <<1720140101, 279>>, <<1722769845, 45>>, <<1725399588, 810>>,
        <<1696472407, 389>>, <<1699102151, 155>>, <<1701731894, 920>>, <<1704361638, 686>> >>,
     << <<1738548351, 642>>, <<1741178095, 408>>, <<1743807839, 173>>, <<1746437582, 939>>,
        <<1749067326, 705>>, <<1751697070, 470>>, <<1754326814, 236>>, <<1756956558, 1>>,
        <<1728029376, 580>>, <<1730659120, 346>>, <<1733288864, 111>>, <<1735918607, 877>> >>,
     << <<1770105326, 312>>, <<1772735070, 78>>, <<1775364813, 843>>, <<1777994557, 609>>,
        <<1780624301, 374>>, <<1783254045, 140>>, <<1785883788, 906>>, <<1788513532, 671>>,
        <<1759586351, 250>>, <<1762216095, 15>>, <<1764845838, 781>>, <<1767475582, 547>> >>,
     << <<1801662321, 950>>, <<1804292065, 716>>, <<1806921809, 481>>, <<1809551553, 247>>,
        <<1812181297, 12>>, <<1814811040, 778>>, <<1817440784, 543>>, <<1820070528, 309>>,
        <<1791143346, 888>>, <<1793773090, 653>>, <<1796402834, 419>>, <<1799032578, 184>> >>,
     << <<1833218640, 46>>, <<1835848383, 812>>, <<1838478127, 577>>, <<1841107871, 343>>,
        <<1843737615, 108>>, <<1846367358, 874>>, <<1848997102, 639>>, <<1851626846, 405>>,
        <<1822699664, 984>>, <<1825329408, 749>>, <<1827959152, 515>>, <<1830588896, 280>> >> >>

findTimeForSolarLongitudeUtc(year, k, eph) ==
  IF eph = "bracketed" THEN Jie12Found[year - FirstJieYear + 1][k]
  ELSE Jie12Approx[year - FirstJieYear + 1][k]

\* the comparator (a, b) => a.timeUtc.getTime() - b.timeUtc.getTime() of
\* Array.prototype.sort; SortSeq is stable as that sort is
earlierJie(a, b) == msBefore(a.timeUtc, b.timeUtc)

\* the entries in the order of the source's table, not sorted
buildJie12Utc_unsorted(year, eph) ==
  [k \in 1..12 |-> [angle |-> JIE12_FOR_MONTH[k],
                    timeUtc |-> findTimeForSolarLongitudeUtc(year, k, eph)]]

\* buildJie12Utc(year): { angle, timeUtc } of the 12 month boundaries, one
\* per entry of JIE12_FOR_MONTH, sorted by instant
buildJie12Utc(year, eph) ==
  SortSeq([k \in 1..12 |->
             [angle |-> JIE12_FOR_MONTH[k],
              timeUtc |-> findTimeForSolarLongitudeUtc(year, k, eph)]],
          earlierJie)

\* PREF_LONGITUDE of this handler, hundredths of a degree; null is 0 - 1
PhaseD_PREF_LONGITUDE(pref) ==
  CASE pref = "Osaka" -> 13552
    [] pref = "Shizuoka" -> 13838
    [] pref = "Okinawa" -> 12768
    [] pref = "Tokyo" -> 13969
    [] OTHER           -> 0 - 1

\* parseDateTimeJstToUtc: hh:mm only, the seconds are dropped
parseDateTimeJstToUtc(date, time) ==
  LET hh == IF time = NoTime THEN 12 ELSE time.hh
      mm == IF time = NoTime THEN 0 ELSE time.mm
  IN [Y |-> date.y, M |-> date.m, D |-> date.d, hh |-> hh, mm |-> mm,
      utc |-> <<jstSecOf(date.y, date.m, date.d, hh, mm, 0), 0>>]

calcYearPillarByRisshun(yearNumber) ==
  sexagenaryFromIndex(mod(yearNumber - 1984, 60))

\* base day 1984-02-02 = 甲子
calcDayPillarSimpleByYMD(y, m, d) ==
  sexagenaryFromIndex(mod(julianDayNumber(y, m, d)
                            - julianDayNumber(1984, 2, 2), 60))

calcDayPillarWithBoundary(Y, M, D, hh, mm, dayBoundaryMode) ==
  LET pillarOf(ymd) == calcDayPillarSimpleByYMD(ymd.y, ymd.m, ymd.d)
  IN pillarOf(IF dayBoundaryMode = "23" /\ hh * 60 + mm >= 23 * 60
                THEN addDaysJst([y |-> Y, m |-> M, d |-> D], 1)
                ELSE [y |-> Y, m |-> M, d |-> D])

hourStemFromDayStemAndHourBranch(dayStem, hourBranch) ==
  (hourStartStem(dayStem) + hourBranch) % 10

tigerMonthStemForYearStem(yearStem) == monthStartStem(yearStem)

\* all = jiePrev ++ jieThis ++ jieNext sorted by time; the loop keeps the
\* last entry whose time is at or before the instant, which is the latest of
\* them, and all[0], the earliest entry, when there is none
RECURSIVE latestJie(_, _, _, _)
latestJie(all, i, best, usedUtc) ==
  IF i > Len(all) THEN best
  ELSE
    LET j  == all[i]
        nb == IF msBefore(usedUtc, j.timeUtc) THEN best
              ELSE IF best = NULL THEN j
              ELSE IF msBefore(best.timeUtc, j.timeUtc) THEN j ELSE best
    IN latestJie(all, i + 1, nb, usedUtc)

RECURSIVE earliestJie(_, _, _)
earliestJie(all, i, best) ==
  IF i > Len(all) THEN best
  ELSE earliestJie(all, i + 1,
                   IF msBefore(all[i].timeUtc, best.timeUtc) THEN all[i] ELSE best)

calcMonthPillarByJie(usedUtc, yearPillarStem, eph) ==
  LET out(latestAngle, monthIndex) ==
        [kan |-> mod(tigerMonthStemForYearStem(yearPillarStem) + monthIndex, 10),
         shi |-> (monthIndex + 2) % 12,
         sekkiUsedAngle |-> latestAngle]
      withLatest(latest) == out(latest.angle, jieIndexOf(latest.angle) - 1)
      withFound(all, found) ==
        withLatest(IF found = NULL THEN earliestJie(all, 2, all[1]) ELSE found)
      withAll(all) == withFound(all, latestJie(all, 1, NULL, usedUtc))
      withYear(yJst) ==
        withAll((buildJie12Utc(yJst - 1, eph) \o buildJie12Utc(yJst, eph))
                  \o buildJie12Utc(yJst + 1, eph))
  IN withYear(partsOfJstSec(usedUtc[1]).y)

\* tenDeity of this handler
relationElem(dayElem, otherElem) ==
  IF dayElem = otherElem THEN "same"
  ELSE IF gen(dayElem) = otherElem THEN "produce_out"
  ELSE IF gen(otherElem) = dayElem THEN "produce_in"
  ELSE IF ctl(dayElem) = otherElem THEN "control_out"
  ELSE IF ctl(otherElem) = dayElem THEN "control_in"
  ELSE "same"

tenDeity(dayStem, otherStem) ==
  IF dayStem \notin 0..9 \/ otherStem \notin 0..9 THEN NoDeity
  ELSE IF dayStem = otherStem THEN "hiken"
  ELSE
    LET d            == STEM_INFO(dayStem)
        o            == STEM_INFO(otherStem)
        rel          == relationElem(d.elem, o.elem)
        samePolarity == d.yin = o.yin
    IN CASE rel = "same"        -> IF samePolarity THEN "hiken" ELSE "gozai"
         [] rel = "produce_out" -> IF samePolarity THEN "shokushin" ELSE "shokan"
         [] rel = "produce_in"  -> IF samePolarity THEN "henin" ELSE "inju"
         [] rel = "control_out" -> IF samePolarity THEN "henzai" ELSE "seizai"
         [] rel = "control_in"  -> IF samePolarity THEN "shichisatsu" ELSE "seikan"
         [] OTHER               -> NoDeity

zokanDeities(zokan, dayStem) ==
  [i \in 1..Len(zokan) |-> [stem |-> zokan[i], deity |-> tenDeity(dayStem, zokan[i])]]

\* countFiveElementsFromPillars: the stems of year, month, day and of hour
\* when there is one, then the hidden stems of every pillar there is
countFiveElementsFromPillars(pillars) ==
  LET hourKan == IF pillars.hour = NULL THEN <<>> ELSE <<pillars.hour.kan>>
      hourZ   == IF pillars.hour = NULL THEN <<>> ELSE pillars.hour.zokan
      all     == <<pillars.year.kan, pillars.month.kan, pillars.day.kan>>
                   \o hourKan \o pillars.year.zokan \o pillars.month.zokan
                   \o pillars.day.zokan \o hourZ
  IN [e \in {"wood", "fire", "earth", "metal", "water"} |->
        Cardinality({i \in 1..Len(all) : STEM_INFO(all[i]).elem = e})]

\* jie.find(j => j.angle === 315)
getRisshunUtcForYear(y, eph) ==
  LET first(jie) == jie[CHOOSE i \in 1..Len(jie) :
                          /\ jie[i].angle = 315
                          /\ \A k \in 1..(i - 1) : jie[k].angle # 315]
  IN first(buildJie12Utc(y, eph))

\* asOf before the risshun of its JST year: the year before
getNenunYearByRisshun(asOfUtc, eph) ==
  LET byRisshun(y, r) == IF msBefore(asOfUtc, r.timeUtc) THEN y - 1 ELSE y
      withYear(y) == byRisshun(y, getRisshunUtcForYear(y, eph))
  IN withYear(partsOfJstSec(asOfUtc[1]).y)

\* body.asOfDate absent
NoAsOfDate == [absent |-> TRUE]

parseAsOfDateJstToUtc(asOfDate) ==
  <<jstSecOf(asOfDate.y, asOfDate.m, asOfDate.d, 0, 0, 0), 0>>

\* the handler from the parsed body to the response; every value is
\* computed once and handed on, in the order of the source
PhaseD_handler(body, now, eph) ==
  LET out(yearForPillar, yearP, monthP, dayP, hourP, pillars) ==
        [yearForPillar |-> yearForPillar,
         pillars |-> pillars,
         tenDeity |->
           [year  |-> tenDeity(dayP.kan, yearP.kan),
            month |-> tenDeity(dayP.kan, monthP.kan),
            day   |-> "nisshu",
            hour  |-> IF hourP = NULL THEN NoDeity
                      ELSE tenDeity(dayP.kan, hourP.kan)],
         zokanTenDeity |->
           [year  |-> zokanDeities(pillars.year.zokan, dayP.kan),
            month |-> zokanDeities(pillars.month.zokan, dayP.kan),
            day   |-> zokanDeities(pillars.day.zokan, dayP.kan),
            hour  |-> IF hourP = NULL THEN <<>>
                      ELSE zokanDeities(pillars.hour.zokan, dayP.kan)],
         fiveElements |-> countFiveElementsFromPillars(pillars),
         nenunYearByRisshun |->
           IF body.sex \in {"M", "F"}
             THEN getNenunYearByRisshun(
                    IF body.asOfDate # NoAsOfDate
                      THEN parseAsOfDateJstToUtc(body.asOfDate)
                      ELSE <<now, 0>>, eph)
             ELSE 0 - 1]
      withPillars(yearForPillar, yearP, monthP, dayP, hourP) ==
        out(yearForPillar, yearP, monthP, dayP, hourP,
            [year  |-> pillarOut(yearP),
             month |-> pillarOut(monthP),
             day   |-> pillarOut(dayP),
             hour  |-> IF hourP = NULL THEN NULL ELSE pillarOut(hourP)])
      hourPillar(dayP, hb) ==
        [kan |-> hourStemFromDayStemAndHourBranch(dayP.kan, hb), shi |-> hb]
      withDay(usedUtc, usedHH, usedMM, yearForPillar, yearP, dayP) ==
        withPillars(yearForPillar, yearP,
                    calcMonthPillarByJie(usedUtc, yearP.kan, eph), dayP,
                    IF body.time # NoTime
                      THEN hourPillar(dayP, hourBranchFromTime(usedHH, usedMM))
                      ELSE NULL)
      withYear(parsed, usedUtc, usedHH, usedMM, yearForPillar) ==
        withDay(usedUtc, usedHH, usedMM, yearForPillar,
                calcYearPillarByRisshun(yearForPillar),
                calcDayPillarWithBoundary(parsed.Y, parsed.M, parsed.D,
                                          usedHH, usedMM, body.dayBoundaryMode))
      \* yearForPillar = Y - 1 when usedUtc is before the risshun of Y
      withUsed(parsed, corrected, usedUtc, usedJst) ==
        withYear(parsed, usedUtc,
                 IF corrected THEN usedJst.hh ELSE parsed.hh,
                 IF corrected THEN usedJst.mm ELSE parsed.mm,
                 IF msBefore(usedUtc, getRisshunUtcForYear(parsed.Y, eph).timeUtc)
                   THEN parsed.Y - 1 ELSE parsed.Y)
      withUsedUtc(parsed, corrected, usedUtc) ==
        withUsed(parsed, corrected, usedUtc, partsOfJstSec(usedUtc[1]))
      withLon(parsed, corrected, lonMs) ==
        withUsedUtc(parsed, corrected,
                    <<parsed.utc[1] + (lonMs \div 1000), lonMs % 1000>>)
      withLongitude(parsed, longitude, corrected) ==
        withLon(parsed, corrected,
                IF corrected THEN (longitude - 13500) * 2400 ELSE 0)
      withParsed(parsed, longitude) ==
        withLongitude(parsed, longitude,
                      body.timeMode = "mean_solar" /\ longitude >= 0
                        /\ body.time # NoTime)
  IN withParsed(parseDateTimeJstToUtc(body.date, body.time),
                PhaseD_PREF_LONGITUDE(body.pref))
\* ------------------------------------------------------------------------
\* The "Phase A+B+C" handler on lib/sekki.js.  calcYearPillarByRisshun,
\* calcMonthPillarByJie, the day pillar formula and the hour pillar rules are
\* the functions the Phase D handler kept; its longitude table and its
\* response differ.
\* ------------------------------------------------------------------------
\* PREF_LONGITUDE of this handler, hundredths of a degree; null is 0 - 1
PhaseABC_PREF_LONGITUDE(pref) ==
  CASE pref = "Osaka" -> 13550
    [] pref = "Okinawa" -> 12768
    [] OTHER           -> 0 - 1

\* the year and month pillars come from the civil instant, the day boundary
\* and the hour pillar from the clock reading after the longitude correction;
\* every pillar goes out with zokan [] and the five counts go out as zeros
PhaseABC_handler(body, eph) ==
  LET bare(p) == [kan |-> p.kan, shi |-> p.shi, zokan |-> <<>>]
      out(yearForPillar, yearP, monthP, dayP, hourP) ==
        [yearPillarYearUsed |-> yearForPillar,
         pillars |->
           [year  |-> bare(yearP),
            month |-> bare(monthP),
            day   |-> bare(dayP),
            hour  |-> IF hourP = NULL THEN NULL ELSE bare(hourP)],
         fiveElements |->
           [counts |-> [e \in {"wood", "fire", "earth", "metal", "water"} |-> 0]]]
      hourPillar(dayP, hb) ==
        [kan |-> hourStemFromDayStemAndHourBranch(dayP.kan, hb), shi |-> hb]
      withDay(parsed, usedHH, usedMM, yearForPillar, yearP, dayP) ==
        out(yearForPillar, yearP,
            calcMonthPillarByJie(parsed.utc, yearP.kan, eph), dayP,
            IF body.time # NoTime
              THEN hourPillar(dayP, hourBranchFromTime(usedHH, usedMM))
              ELSE NULL)
      withYear(parsed, usedHH, usedMM, yearForPillar) ==
        withDay(parsed, usedHH, usedMM, yearForPillar,
                calcYearPillarByRisshun(yearForPillar),
                IF body.time # NoTime
                  THEN calcDayPillarWithBoundary(parsed.Y, parsed.M, parsed.D,
                                                 usedHH, usedMM, body.dayBoundaryMode)
                  ELSE calcDayPillarSimpleByYMD(parsed.Y, parsed.M, parsed.D))
      withUsed(parsed, usedParts) ==
        withYear(parsed, usedParts.hh, usedParts.mm,
                 IF msBefore(parsed.utc, getRisshunUtcForYear(parsed.Y, eph).timeUtc)
                   THEN parsed.Y - 1 ELSE parsed.Y)
      withLon(parsed, lonMs) ==
        withUsed(parsed,
                 IF body.time # NoTime /\ body.timeMode = "mean_solar" /\ lonMs # 0
                   THEN partsOfJstSec(parsed.utc[1] + (lonMs \div 1000))
                   ELSE [hh |-> parsed.hh, mm |-> parsed.mm])
      withLongitude(parsed, longitude) ==
        withLon(parsed,
                IF body.timeMode = "mean_solar" /\ longitude >= 0
                  THEN (longitude - 13500) * 2400 ELSE 0)
  IN withLongitude(parseDateTimeJstToUtc(body.date, body.time),
                   PhaseABC_PREF_LONGITUDE(body.pref))

\* ------------------------------------------------------------------------
\* buildJie12Utc of two other revisions of lib/sekki.js
\* ------------------------------------------------------------------------
\* findSolarLongitudeTimeUtc(ang, approxByAngle(ang), 4) for
\* solarLongitudeApparentDeg as that revision defines it: row = year,
\* column = position in JIE_ANGLES.  Each instant lies in the year asked for.
Part004_JieTimes ==
  << << <<1643953557, 571>>, <<1646523685, 32>>, <<1649132502, 297>>, <<1651786287, 964>>,
        <<1654479254, 84>>, <<1657194429, 225>>, <<1659908219, 63>>, <<1662597448, 568>>,
        <<1665246240, 269>>, <<1667850186, 661>>, <<1670416824, 154>>, <<1641406116, 286>> >>,
     << <<1675510435, 949>>, <<1678080542, 636>>, <<1680689330, 960>>, <<1683343086, 236>>,
        <<1686036028, 166>>, <<1688751191, 635>>, <<1691464985, 75>>, <<1694154231, 606>>,
        <<1696803048, 69>>, <<1699407019, 464>>, <<1701973675, 129>>, <<1672963002, 993>> >>,
     << <<1707067285, 784>>, <<1709637372, 361>>, <<1712246132, 343>>, <<1714899857, 897>>,
        <<1717592776, 489>>, <<1720307929, 389>>, <<1723021727, 774>>, <<1725710992, 841>>,
        <<1728359835, 629>>, <<1730963833, 534>>, <<1733530508, 756>>, <<1704519860, 321>> >>,
     << <<1738624120, 616>>, <<1741194188, 117>>, <<1743802920, 791>>, <<1746456617, 723>>,
        <<1749149514, 192>>, <<1751864657, 860>>, <<1754578462, 618>>, <<1757267747, 679>>,
        <<1759916618, 225>>, <<1762520644, 12>>, <<1765087340, 97>>, <<1736076701, 540>> >>,
     << <<1770180955, 680>>, <<1772751005, 395>>, <<1775359712, 108>>, <<1778013381, 826>>,
        <<1780706257, 614>>, <<1783421393, 472>>, <<1786135205, 950>>, <<1788824512, 247>>,
        <<1791473411, 690>>, <<1794077466, 439>>, <<1796644184, 465>>, <<1767633541, 732>> >>,
     << <<1801737806, 182>>, <<1804307839, 509>>, <<1806916521, 775>>, <<1809570165, 838>>,
        <<1812263022, 446>>, <<1814978151, 838>>, <<1817691973, 154>>, <<1820381301, 572>>,
        <<1823030230, 631>>, <<1825634315, 5>>, <<1828201055, 706>>, <<1799190396, 100>> >>,
     << <<1833294685, 587>>, <<1835864703, 878>>, <<1838473363, 202>>, <<1841126983, 141>>,
        <<1843819821, 966>>, <<1846534946, 7>>, <<1849248776, 918>>, <<1851938127, 885>>,
        <<1854587086, 777>>, <<1857191200, 951>>, <<1859757964, 630>>, <<1830747278, 243>> >> >>

\* one entry per angle of JIE_ANGLES (the order of SEKKI_12), sorted by instant
Part004_buildJie12Utc(year) ==
  SortSeq([k \in 1..12 |->
             [angle |-> SEKKI_12[k],
              timeUtc |-> Part004_JieTimes[year - FirstJieYear + 1][k]]],
          earlierJie)

\* findTimeWhenLongitudeHitsAngleUtc(angle, approxJieCenterUtc(year, angle), 6)
\* for sunApparentLongitudeDeg as that revision defines it: row = year,
\* column = position in JIE_12.  The instants of 225 and 255 lie in the year
\* before.
Part005_JieTimes ==
  << << <<1643953563, 890>>, <<1646523680, 972>>, <<1649132494, 538>>, <<1651786285, 253>>,
        <<1654479247, 62>>, <<1657194436, 410>>, <<1659908217, 750>>, <<1662597445, 965>>,
        <<1665246237, 461>>, <<1636293315, 573>>, <<1638859936, 366>>, <<1641406117, 315>> >>,
     << <<1675510430, 882>>, <<1678080547, 964>>, <<1680689329, 890>>, <<1683343088, 964>>,
        <<1686036034, 953>>, <<1688751192, 660>>, <<1691464989, 820>>, <<1694154233, 856>>,
        <<1696803041, 172>>, <<1667850182, 565>>, <<1670416819, 178>>, <<1672963000, 128>> >>,
     << <<1707067287, 327>>, <<1709637372, 769>>, <<1712246138, 874>>, <<1714899850, 488>>,
        <<1717592780, 656>>, <<1720307922, 543>>, <<1723021735, 523>>, <<1725710995, 379>>,
        <<1728359834, 336>>, <<1699407023, 190>>, <<1701973675, 624>>, <<1704519856, 573>> >>,
     << <<1738624122, 679>>, <<1741194192, 300>>, <<1743802926, 765>>, <<1746456622, 558>>,
        <<1749149521, 86>>, <<1751864662, 972>>, <<1754578460, 133>>, <<1757267751, 629>>,
        <<1759916622, 227>>, <<1730963826, 901>>, <<1733530510, 975>>, <<1736076707, 745>> >>,
     << <<1770180958, 30>>, <<1772751011, 831>>, <<1775359714, 656>>, <<1778013378, 808>>,
        <<1780706261, 515>>, <<1783421387, 582>>, <<1786135200, 562>>, <<1788824507, 879>>,
        <<1791473410, 117>>, <<1762520646, 432>>, <<1765087346, 327>>, <<1767633543, 97>> >>,
     << <<1801737809, 202>>, <<1804307847, 183>>, <<1806916518, 367>>, <<1809570166, 699>>,
        <<1812263017, 765>>, <<1814978159, 652>>, <<1817691972, 633>>, <<1820381295, 770>>,
        <<1823030229, 649>>, <<1794077465, 963>>, <<1796644181, 678>>, <<1799190394, 268>> >>,
     << <<1833294681, 468>>, <<1835864703, 628>>, <<1838473358, 992>>, <<1841126975, 683>>,
        <<1843819826, 750>>, <<1846534952, 816>>, <<1849248781, 617>>, <<1851938120, 574>>,
        <<1854587086, 94>>, <<1825634322, 409>>, <<1828201053, 944>>, <<1830747282, 354>> >> >>

\* |a.timeUtc - center| for center = 1 July of the year, 00:00 UTC, as a pair
\* <<seconds, milliseconds>>
Part005_centerDistance(t, year) ==
  LET c == jstSecOf(year, 7, 1, 9, 0, 0)
  IN IF t[1] >= c THEN <<t[1] - c, t[2]>>
     ELSE IF t[2] = 0 THEN <<c - t[1], 0>>
     ELSE <<c - t[1] - 1, 1000 - t[2]>>

\* one entry per angle of JIE_12 (the order of SEKKI_12): sorted by instant,
\* sorted by the distance from the centre, cut to the first 12, sorted by
\* instant
Part005_buildJie12Utc(year) ==
  LET nearer(a, b) == msBefore(Part005_centerDistance(a.timeUtc, year),
                               Part005_centerDistance(b.timeUtc, year))
      picked(out) == SortSeq(SubSeq(out, 1, 12), earlierJie)
      fromOut(out) == picked(SortSeq(SortSeq(out, earlierJie), nearer))
  IN fromOut([k \in 1..12 |->
                [angle |-> SEKKI_12[k],
                 timeUtc |-> Part005_JieTimes[year - FirstJieYear + 1][k]]])


\* ------------------------------------------------------------------------
\* Phase D: decade list and its current entry.  Ages are in tenths of a
\* year, the unit the source rounds them to.
\* ------------------------------------------------------------------------
addStem(stem, add) == (stem + add + 10) % 10

addBranch(branch, add) == (branch + add + 12) % 12

\* STEM_INFO[stem]?.yin === "yang"; the table of this revision has "yang"
\* where the final one has yin: false
isYangStem(stem) == stem \in 0..9 /\ ~STEM_INFO(stem).yin

calcDirection(yearStem, sex) ==
  LET yang == isYangStem(yearStem)
  IN IF sex \notin {"M", "F"} THEN NULL
     ELSE IF yang /\ sex = "M" THEN "forward"
     ELSE IF yang /\ sex = "F" THEN "backward"
     ELSE IF ~yang /\ sex = "M" THEN "backward"
     ELSE "forward"

PhaseD_buildDayun(monthPillar, direction, startAgeTenths, dayStemForTenDeity) ==
  LET step == IF direction = "backward" THEN 0 - 1 ELSE 1
  IN [n \in 1..10 |->
        LET kan == addStem(monthPillar.kan, step * n)
        IN [kan |-> kan,
            shi |-> addBranch(monthPillar.shi, step * n),
            tenDeity |-> tenDeity(dayStemForTenDeity, kan),
            ageFrom |-> startAgeTenths + (n - 1) * 100,
            ageTo |-> startAgeTenths + n * 100]] \o <<>>

pickCurrentDayunIndex(dayun, ageYears) ==
  LET hits == {i \in 1..Len(dayun) :
                 ageYears >= dayun[i].ageFrom /\ ageYears < dayun[i].ageTo}
  IN IF Len(dayun) = 0 THEN 0 - 1
     ELSE IF hits # {} THEN (CHOOSE i \in hits : \A j \in hits : i <= j) - 1
     ELSE IF ageYears < dayun[1].ageFrom THEN 0
     ELSE Len(dayun) - 1

PhaseD_buildNenunList(centerYear, dayStemForTenDeity) ==
  [i \in 1..13 |->
     LET y  == centerYear - 6 + (i - 1)
         yp == calcYearPillarByRisshun(y)
     IN [pillarYear |-> y, kan |-> yp.kan, shi |-> yp.shi,
         tenDeity |-> tenDeity(dayStemForTenDeity, yp.kan)]] \o <<>>

\* ------------------------------------------------------------------------
\* api/meishi.js: the void pair (kuuBou) of a day pillar, branches as their
\* positions in BRANCHES
\* ------------------------------------------------------------------------
calcKuuBouFromDayPillar(dayKan, dayShi) ==
  LET idx      == sexagenaryIndex(dayKan, dayShi)
      junStart == idx - (idx % 10)
      startBi  == junStart % 12
  IN <<mod(startBi - 2, 12), mod(startBi - 1, 12)>>

\* the later revision of the file, when derived.luck carries no kuuBou
calcKuuBouFallback(dayPillar) ==
  <<(dayPillar.shi + 10) % 12, (dayPillar.shi + 11) % 12>>

\* ------------------------------------------------------------------------
\* The solvers step by step: scan, bracket, bisection
\* ------------------------------------------------------------------------
\* The first millisecond at which the solar longitude has reached each angle
\* of SEKKI_12, as <<JST second, millisecond>>: row = year from FirstJieYear,
\* column = position in SEKKI_12.  solarLongitudeDeg of the final revision,
\* sunApparentLongitudeDeg of lib/sekki.js and the longitude under the
\* rotation of part_005 reach each angle in the same millisecond.
LongitudeReaches ==
  << << <<1643953557, 573>>, <<1646523685, 33>>, <<1649132502, 298>>, <<1651786287, 965>>,
        <<1654479254, 85>>, <<1657194429, 226>>, <<1659908219, 64>>, <<1662597448, 569>>,
        <<1665246240, 270>>, <<1667850186, 662>>, <<1670416824, 155>>, <<1641406116, 287>> >>,
     << <<1675510435, 950>>, <<1678080542, 637>>, <<1680689330, 961>>, <<1683343086, 237>>,
        <<1686036028, 167>>, <<1688751191, 636>>, <<1691464985, 76>>, <<1694154231, 607>>,
        <<1696803048, 70>>, <<1699407019, 465>>, <<1701973675, 130>>, <<1672963002, 994>> >>,
     << <<1707067285, 785>>, <<1709637372, 362>>, <<1712246132, 344>>, <<1714899857, 898>>,
        <<1717592776, 490>>, <<1720307929, 390>>, <<1723021727, 775>>, <<1725710992, 842>>,
        <<1728359835, 630>>, <<1730963833, 535>>, <<1733530508, 757>>, <<1704519860, 322>> >>,
     << <<1738624120, 617>>, <<1741194188, 118>>, <<1743802920, 792>>, <<1746456617, 724>>,
        <<1749149514, 193>>, <<1751864657, 861>>, <<1754578462, 619>>, <<1757267747, 680>>,
        <<1759916618, 226>>, <<1762520644, 13>>, <<1765087340, 97>>, <<1736076701, 541>> >>,
     << <<1770180955, 681>>, <<1772751005, 396>>, <<1775359712, 109>>, <<1778013381, 827>>,
        <<1780706257, 615>>, <<1783421393, 473>>, <<1786135205, 951>>, <<1788824512, 248>>,
        <<1791473411, 691>>, <<1794077466, 440>>, <<1796644184, 466>>, <<1767633541, 733>> >>,
     << <<1801737806, 183>>, <<1804307839, 510>>, <<1806916521, 776>>, <<1809570165, 839>>,
        <<1812263022, 447>>, <<1814978151, 839>>, <<1817691973, 155>>, <<1820381301, 573>>,
        <<1823030230, 632>>, <<1825634315, 6>>, <<1828201055, 707>>, <<1799190396, 102>> >>,
     << <<1833294685, 588>>, <<1835864703, 879>>, <<1838473363, 203>>, <<1841126983, 142>>,
        <<1843819821, 967>>, <<1846534946, 8>>, <<1849248776, 919>>, <<1851938127, 886>>,
        <<1854587086, 778>>, <<1857191200, 952>>, <<1859757964, 631>>, <<1830747278, 244>> >> >>

\* sub-second units of an instant <<second, units>>: milliseconds in the
\* final revision, sixteenths of a millisecond in part_005, whose midpoints
\* are fractions
MsPerSec == 1000
SixteenthsPerSec == 16000

normInstant(sec, u, per) == <<sec + (u \div per), u % per>>

\* (lo + hi) / 2, cut to a whole unit
midInstant(lo, hi, per) ==
  LET dsec == hi[1] - lo[1]
      du == hi[2] - lo[2]
  IN normInstant(lo[1] + (dsec \div 2),
                 lo[2] + (((dsec % 2) * per + du) \div 2), per)

\* Where the longitude stands against a target at instant t (whole
\* milliseconds): "zero" on the millisecond it reaches the target, "past"
\* for the half turn after it, "opposite" on the millisecond it reaches
\* target + 180, "before" for the half turn that leads back to the target.
longitudePhase(t, target) ==
  LET opposite == (target + 180) % 360
      reached == {c \in {[at |-> LongitudeReaches[y][k], angle |-> SEKKI_12[k]] :
                           y \in 1..Len(LongitudeReaches),
                           k \in {jieIndexOf(target), jieIndexOf(opposite)}} :
                    ~msBefore(t, c.at)}
      last == CHOOSE c \in reached : \A o \in reached : ~msBefore(c.at, o.at)
  IN IF last.angle = target
       THEN (IF last.at = t THEN "zero" ELSE "past")
       ELSE (IF last.at = t THEN "opposite" ELSE "before")

\* the sign of angleDiffSigned(solarLongitudeDeg(t), target): (lon - target)
\* folded into [-180, 180)
angleDiffSigned(t, target) ==
  LET p == longitudePhase(t, target)
  IN IF p = "zero" THEN 0 ELSE IF p = "past" THEN 1 ELSE 0 - 1

\* the bisection loop of findSolarTermTimeJst: every [lo, hi] it holds, the
\* starting bracket first
RECURSIVE solarTermBisect(_, _, _, _, _)
solarTermBisect(lo, hi, target, tolMs, i) ==
  IF i >= 80 \/ ~msBefore(normInstant(lo[1], lo[2] + tolMs, MsPerSec), hi)
    THEN <<[lo |-> lo, hi |-> hi]>>
    ELSE LET mid == midInstant(lo, hi, MsPerSec)
             crossed == angleDiffSigned(lo, target) * angleDiffSigned(mid, target) <= 0
         IN <<[lo |-> lo, hi |-> hi]>>
              \o (IF crossed THEN solarTermBisect(lo, mid, target, tolMs, i + 1)
                             ELSE solarTermBisect(mid, hi, target, tolMs, i + 1))

\* findSolarTermTimeJst step by step for the longitude of the source: the
\* hourly scan of 8 days from 00:00 JST of the guessed date, the scan widened
\* by 5 days on either side, the fallback to noon, the bisection; result is
\* the instant handed to formatTermResultJst
solarTermSearch(year, targetAngleDeg, precision) ==
  LET start == fallbackSecOf(year, targetAngleDeg) - 43200
      f(sec) == angleDiffSigned(<<sec, 0>>, targetAngleDeg)
      hits(from, hours) == {k \in 1..hours :
                              f(from + (k - 1) * 3600) * f(from + k * 3600) <= 0}
      first(s) == CHOOSE k \in s : \A o \in s : k <= o
      start2 == start - 5 * 86400
      h1 == hits(start, 8 * 24)
      h2 == hits(start2, 18 * 24)
      found == h1 # {} \/ h2 # {}
      t1 == IF h1 # {} THEN start + first(h1) * 3600
                       ELSE start2 + first(h2) * 3600
      tolMs == IF precision = "second" THEN 1000 ELSE 60000
      steps == solarTermBisect(<<t1 - 3600, 0>>, <<t1, 0>>, targetAngleDeg, tolMs, 0)
  IN IF ~found
       THEN [bracketed |-> FALSE, steps |-> <<>>,
             result |-> <<fallbackSecOf(year, targetAngleDeg), 0>>]
       ELSE [bracketed |-> TRUE, steps |-> steps, result |-> steps[Len(steps)].hi]

\* part_005: diffDegSigned(targetAngle, sunApparentLongitudeDeg(t)) > 0 and
\* = 0.  sunApparentLongitudeDeg is the longitude turned by 180 degrees, so
\* the difference is positive for the half turn after the longitude itself
\* reaches the target and zero when the longitude reaches target + 180.
Part005_diffPositive(t, targetAngle) ==
  longitudePhase(<<t[1], t[2] \div 16>>, targetAngle) = "past"

Part005_diffZero(t, targetAngle) ==
  longitudePhase(<<t[1], t[2] \div 16>>, targetAngle) = "opposite"

\* approxJieCenterUtc: 20 March 12:00 UTC of the year plus
\* diffDegSigned(angle, 45) * (365.2422 / 360) days, which is 87,658,128 ms
\* a degree
approxJieCenterUtc(year, angle) ==
  LET d == (angle - 45) % 360
      diffDeg == IF d >= 180 THEN d - 360 ELSE d
  IN normInstant(jstSecOf(year, 3, 20, 21, 0, 0) + diffDeg * 87658,
                 diffDeg * 128 * 16, SixteenthsPerSec)

\* the bisection loop of findTimeWhenLongitudeHitsAngleUtc: it ends once
\* hi - lo < 30 s
RECURSIVE Part005_bisect(_, _, _, _)
Part005_bisect(lo, hi, targetAngle, i) ==
  LET mid == midInstant(lo, hi, SixteenthsPerSec)
      crossed == Part005_diffPositive(lo, targetAngle)
                   # Part005_diffPositive(mid, targetAngle)
      lo2 == IF crossed THEN lo ELSE mid
      hi2 == IF crossed THEN mid ELSE hi
      done == i + 1 >= 80
                \/ msBefore(hi2, normInstant(lo2[1], lo2[2] + 30000 * 16,
                                             SixteenthsPerSec))
  IN <<[lo |-> lo, hi |-> hi]>>
       \o (IF done THEN <<[lo |-> lo2, hi |-> hi2]>>
                   ELSE Part005_bisect(lo2, hi2, targetAngle, i + 1))

\* findTimeWhenLongitudeHitsAngleUtc(targetAngle, approxUtc, 6): the bracket
\* approx -+ 6, 12, 24, 48, 96 days, then the 6-hour scan of approx -+ 60
\* days, then the bisection; result is the midpoint cut to the millisecond
findTimeWhenLongitudeHitsAngleUtc(targetAngle, approxUtc) ==
  LET pos(t) == Part005_diffPositive(t, targetAngle)
      around(days) == [lo |-> <<approxUtc[1] - days * 86400, approxUtc[2]>>,
                       hi |-> <<approxUtc[1] + days * 86400, approxUtc[2]>>]
      holds(b) == Part005_diffZero(b.lo, targetAngle)
                    \/ Part005_diffZero(b.hi, targetAngle)
                    \/ pos(b.lo) # pos(b.hi)
      widths == {e \in 0..4 : holds(around(6 * 2^e))}
      at(k) == <<approxUtc[1] - 60 * 86400 + k * 21600, approxUtc[2]>>
      scanHits == {k \in 1..481 : pos(at(k - 1)) # pos(at(k))}
      least(s) == CHOOSE k \in s : \A o \in s : k <= o
      bracket == IF widths # {} THEN around(6 * 2^least(widths))
                 ELSE IF scanHits # {}
                        THEN [lo |-> at(least(scanHits) - 1), hi |-> at(least(scanHits))]
                        ELSE around(96)
      steps == Part005_bisect(bracket.lo, bracket.hi, targetAngle, 0)
      end == steps[Len(steps)]
      mid == midInstant(end.lo, end.hi, SixteenthsPerSec)
  IN [bracketed |-> widths # {} \/ scanHits # {}, steps |-> steps,
      result |-> <<mid[1], mid[2] \div 16>>]
\* ------------------------------------------------------------------------
\* The chart service as a state machine
\* ------------------------------------------------------------------------
\* Births of the model.  Anchor is the minute of the 2024 risshun as the
\* solver finds it (17:21:25 at 'second', 17:21:33 at 'minute').
Anchor == jstSecOf(2024, 2, 4, 17, 21, 0)
MaxBack == 4
MaxFwd == 4
GridStep == 60 \div 4

GridInstants == {Anchor + 25 + GridStep * k : k \in (0 - MaxBack)..MaxFwd}

\* around the fallback instant of the 2024 risshun (noon), around 1 January,
\* two births of 2027 some 43 minutes after the risshun of that year
\* (10:43:26 at 'second', 10:44:03 at 'minute'), and three births around the
\* 2024 keichitsu (11:16:12 at 'second', 11:16:52 at 'minute'), a month
\* boundary that is no year boundary
ExtraInstants ==
  {jstSecOf(2024, 2, 4, 11, 59, 30), jstSecOf(2024, 2, 4, 12, 0, 30),
   jstSecOf(2023, 12, 31, 23, 59, 30), jstSecOf(2024, 1, 1, 0, 0, 30),
   jstSecOf(2027, 2, 4, 11, 27, 41), jstSecOf(2027, 2, 4, 11, 28, 41),
   jstSecOf(2024, 3, 5, 11, 15, 30), jstSecOf(2024, 3, 5, 11, 16, 30),
   jstSecOf(2024, 3, 5, 11, 17, 30)}

birthOf(sec) ==
  LET p == partsOfJstSec(sec)
  IN [date |-> [y |-> p.y, m |-> p.m, d |-> p.d],
      time |-> [hh |-> p.hh, mm |-> p.mm, ss |-> p.ss]]

\* births with a time, and two births with the date only
Births ==
  {birthOf(s) : s \in GridInstants \cup ExtraInstants}
  \cup {[date |-> [y |-> 2024, m |-> 2, d |-> 4], time |-> NoTime],
        [date |-> [y |-> 2024, m |-> 7, d |-> 20], time |-> NoTime]}

Persons == {[sex |-> "M", pref |-> "Osaka"], [sex |-> "F", pref |-> "Okinawa"]}

\* the wall clock: new Date() at the moments the service is asked, around
\* the risshun of 2028 (16:31, fallback instant 12:00)
ClockStart == jstSecOf(2028, 2, 4, 11, 0, 0)
ClockInstants == {ClockStart, jstSecOf(2028, 2, 4, 17, 0, 0)}

\* no response yet
NoResp == [none |-> TRUE]

\* ------------------------------------------------------------------------
\* Concurrent invocations of the handler and the module-level TERM_CACHE
\* ------------------------------------------------------------------------
MaxInvocations == 2

Invocations == 1..MaxInvocations

Methods == {"POST", "OPTIONS", "GET"}

\* cache keys `${year}:${angle}:${precision}` an invocation asks for, in the
\* order of the handler: risshun of the year, then the candidates of the
\* month boundary, which ask for the risshun again
termKey(year, angle, precision) ==
  [year |-> year, angle |-> angle, precision |-> precision]

LookupPlans ==
  {<<termKey(2024, 315, p), termKey(2023, 285, p), termKey(2024, 315, p)>> :
     p \in Precisions}

VARIABLES
  req,         \* the JSON body of the request
  now,         \* the wall clock
  eph,         \* the ephemeris the solver meets
  resp,        \* response of the handler (api/shichusuimei.js, Phase B+ final)
  respB,       \* response of the Phase B+ revision before the precision fix
  respD,       \* response of the Phase D revision
  respC,       \* response of the calendar revision
  respA,       \* response of the Phase A+B+C revision
  pc,          \* where each invocation of the handler stands
  method,      \* req.method of each invocation
  plan,        \* the lookups each invocation makes once it has its body
  left,        \* the lookups it still has to make
  running,     \* the invocation that holds the thread, 0 when none does
  TERM_CACHE,  \* the module-level Map: set of [key, by], by = who stored it
  served,      \* cache hits so far: [reader, writer]
  arg,         \* the arguments of the last call of a table or list function
  out          \* what the call returned

chartVars == <<req, now, eph, resp, respB, respD, respC, respA>>

concVars == <<pc, method, plan, left, running, TERM_CACHE, served>>

calcVars == <<arg, out>>

vars == <<chartVars, concVars, calcVars>>

\* no call yet
NoCall == [none |-> TRUE]

CalcStart == arg = NoCall /\ out = NoCall

ConcStart ==
  /\ pc = [i \in Invocations |-> "idle"]
  /\ method = [i \in Invocations |-> "POST"]
  /\ plan = [i \in Invocations |-> <<>>]
  /\ left = [i \in Invocations |-> <<>>]
  /\ running = 0
  /\ TERM_CACHE = {}
  /\ served = {}

Init ==
  /\ eph \in Ephemerides
  /\ now = ClockStart
  /\ \E b \in Births, who \in Persons, tm \in TimeModes,
        db \in DayBoundaryModes, ref \in BoundaryTimeRefs,
        pr \in Precisions, tb \in TieBreaks :
       req = [date |-> b.date, time |-> b.time, sex |-> who.sex,
              pref |-> who.pref, timeMode |-> tm, dayBoundaryMode |-> db,
              boundaryTimeRef |-> ref, sekkiBoundaryPrecision |-> pr,
              sekkiBoundaryTieBreak |-> tb, asOfDate |-> NoAsOfDate]
  /\ resp = NoResp /\ respB = NoResp /\ respD = NoResp /\ respC = NoResp
  /\ respA = NoResp
  /\ ConcStart
  /\ CalcStart

\* POST /api/shichusuimei with the body req, answered by each revision
Post ==
  /\ resp'  = handler(req, now, eph)
  /\ respB' = PhaseB_handler(req, eph)
  /\ respD' = PhaseD_handler(req, now, eph)
  /\ respC' = Calendar_handler(req)
  /\ respA' = PhaseABC_handler(req, eph)
  /\ UNCHANGED <<req, now, eph>>
  /\ UNCHANGED <<concVars, calcVars>>

\* time passes between two requests
Tick ==
  /\ \E t \in ClockInstants : t > now /\ now' = t
  /\ UNCHANGED <<req, eph, resp, respB, respD, respC, respA>>
  /\ UNCHANGED <<concVars, calcVars>>

Next == Post \/ Tick

Spec == Init /\ [][Next]_vars

\* ---- the invocations, step by step ----
\* the handler is entered: it runs on the thread until it awaits or returns
Enter(i) ==
  /\ running = 0 /\ pc[i] = "idle"
  /\ \E m \in Methods, p \in LookupPlans, parsed \in BOOLEAN :
       /\ method' = [method EXCEPT ![i] = m]
       /\ plan' = [plan EXCEPT ![i] = p]
       /\ left' = [left EXCEPT ![i] = p]
       /\ IF m = "OPTIONS" \/ m # "POST"
            THEN pc' = [pc EXCEPT ![i] = "finally"] /\ running' = i
            ELSE IF parsed
              THEN pc' = [pc EXCEPT ![i] = "computing"] /\ running' = i
              ELSE pc' = [pc EXCEPT ![i] = "reading"] /\ running' = 0
  /\ UNCHANGED <<TERM_CACHE, served>>
  /\ UNCHANGED <<chartVars, calcVars>>

\* await readJsonBody(req) resolves: the invocation takes the thread again
BodyRead(i) ==
  /\ running = 0 /\ pc[i] = "reading"
  /\ running' = i
  /\ pc' = [pc EXCEPT ![i] = "computing"]
  /\ UNCHANGED <<method, plan, left, TERM_CACHE, served>>
  /\ UNCHANGED <<chartVars, calcVars>>

\* await readJsonBody(req) rejects (Invalid JSON body): catch, then finally
BodyRejected(i) ==
  /\ running = 0 /\ pc[i] = "reading"
  /\ running' = i
  /\ pc' = [pc EXCEPT ![i] = "finally"]
  /\ UNCHANGED <<method, plan, left, TERM_CACHE, served>>
  /\ UNCHANGED <<chartVars, calcVars>>

\* a finally block that leaves the cache as it is
clearTermCache_kept(cache) == cache

\* TERM_CACHE.clear() of the finally block
clearTermCache(cache) == {}

\* getSolarTermCached: a hit returns the stored entry, a miss stores one
Lookup(i) ==
  /\ running = i /\ pc[i] = "computing" /\ left[i] # <<>>
  /\ LET key  == Head(left[i])
         hits == {e \in TERM_CACHE : e.key = key}
     IN IF hits # {}
          THEN /\ served' = served \cup
                             {[reader |-> i, writer |-> e.by] : e \in hits}
               /\ UNCHANGED TERM_CACHE
          ELSE /\ TERM_CACHE' = TERM_CACHE \cup {[key |-> key, by |-> i]}
               /\ UNCHANGED served
  /\ left' = [left EXCEPT ![i] = Tail(left[i])]
  /\ UNCHANGED <<pc, method, plan, running>>
  /\ UNCHANGED <<chartVars, calcVars>>

\* the computation throws: catch answers { ok: false }, then finally
Throw(i) ==
  /\ running = i /\ pc[i] = "computing"
  /\ pc' = [pc EXCEPT ![i] = "finally"]
  /\ UNCHANGED <<method, plan, left, running, TERM_CACHE, served>>
  /\ UNCHANGED <<chartVars, calcVars>>

\* res.end(JSON.stringify(resp)) after the last lookup
Respond(i) ==
  /\ running = i /\ pc[i] = "computing" /\ left[i] = <<>>
  /\ pc' = [pc EXCEPT ![i] = "finally"]
  /\ UNCHANGED <<method, plan, left, running, TERM_CACHE, served>>
  /\ UNCHANGED <<chartVars, calcVars>>

\* finally { TERM_CACHE.clear() }: the invocation ends
Finally(i) ==
  /\ running = i /\ pc[i] = "finally"
  /\ TERM_CACHE' = clearTermCache(TERM_CACHE)
  /\ pc' = [pc EXCEPT ![i] = "done"]
  /\ running' = 0
  /\ UNCHANGED <<method, plan, left, served>>
  /\ UNCHANGED <<chartVars, calcVars>>

DefaultBody ==
  [date |-> [y |-> 2024, m |-> 7, d |-> 20], time |-> NoTime, sex |-> "M",
   pref |-> "Osaka", timeMode |-> "standard", dayBoundaryMode |-> "24",
   boundaryTimeRef |-> "used", sekkiBoundaryPrecision |-> "minute",
   sekkiBoundaryTieBreak |-> "after", asOfDate |-> NoAsOfDate]

ConcInit ==
  /\ ConcStart
  /\ CalcStart
  /\ req = DefaultBody /\ now = ClockStart /\ eph = "bracketed"
  /\ resp = NoResp /\ respB = NoResp /\ respD = NoResp /\ respC = NoResp
  /\ respA = NoResp

ConcNext ==
  \E i \in Invocations :
    \/ Enter(i) \/ BodyRead(i) \/ BodyRejected(i) \/ Lookup(i)
    \/ Throw(i) \/ Respond(i) \/ Finally(i)

ConcSpec == ConcInit /\ [][ConcNext]_vars

\* ------------------------------------------------------------------------
\* The table and list functions, called on their own: a call is drawn at the
\* start and the action of its function answers it
\* ------------------------------------------------------------------------
Stems == 0..9

\* the years the tables of instants cover
JieYears == FirstJieYear..(FirstJieYear + Len(Jie12Found) - 1)

\* the ages the lookup of the current decade is called with, in years: below
\* the first window, inside it, and at the end of the last
LookupAges == {0 - 1, 0, 4, 99, 100, 109}

\* starting ages of the Phase D decade list, in tenths of a year
StartAgesTenths == {0, 83, 100}

\* bodies posted to the handler: one the service is made for, one whose date
\* is no date of the pattern (a month of three digits), three whose values
\* have the pattern and name no date or time, and one per policy field with
\* a value the field does not have
GoodBody ==
  [DefaultBody EXCEPT !.date = [y |-> 2024, m |-> 2, d |-> 4],
                      !.time = [hh |-> 17, mm |-> 20, ss |-> 25]]

PostedBodies ==
  {GoodBody,
   [GoodBody EXCEPT !.date.m = 100],
   [GoodBody EXCEPT !.date.m = 13],
   [GoodBody EXCEPT !.date.d = 30],
   [GoodBody EXCEPT !.time.hh = 25],
   [GoodBody EXCEPT !.timeMode = "sidereal"],
   [GoodBody EXCEPT !.dayBoundaryMode = "22"],
   [GoodBody EXCEPT !.boundaryTimeRef = "birth"],
   [GoodBody EXCEPT !.sekkiBoundaryPrecision = "hour"],
   [GoodBody EXCEPT !.sekkiBoundaryTieBreak = "middle"]}

\* the years whose terms the solvers are asked for
SolverYears == 2023..2027

\* the days of a leap year
YearDays ==
  {md \in [m : 1..12, d : 1..31] :
     md.d <= (CASE md.m = 2 -> 29 [] md.m \in {4, 6, 9, 11} -> 30 [] OTHER -> 31)}

\* the first quarter of a leap year, the two days the calibration comments
\* name, and ends of February and of a year inside and outside leap years
DayPillarDates ==
  {ymd \in [y : {2024}, m : 1..3, d : 1..31] : [m |-> ymd.m, d |-> ymd.d] \in YearDays}
    \cup {[y |-> 1984, m |-> 2, d |-> 2], [y |-> 1990, m |-> 2, d |-> 4],
          [y |-> 1900, m |-> 2, d |-> 28], [y |-> 2000, m |-> 2, d |-> 29],
          [y |-> 2023, m |-> 12, d |-> 31], [y |-> 2100, m |-> 2, d |-> 28]}

DayPillarTimes ==
  {[hh |-> 0, mm |-> 0, ss |-> 0], [hh |-> 22, mm |-> 59, ss |-> 59],
   [hh |-> 23, mm |-> 0, ss |-> 0], [hh |-> 23, mm |-> 59, ss |-> 59]}

\* birth instants on either side of the midnight that ends 2023, near
\* enough to it for the time correction of Okinawa (-29 min) or of Tokyo
\* (+19 min) to carry the clock across it
MidnightBirths ==
  {jstSecOf(2023, 12, 31, 23, 5, 0), jstSecOf(2023, 12, 31, 23, 35, 0),
   jstSecOf(2023, 12, 31, 23, 50, 0), jstSecOf(2024, 1, 1, 0, 10, 0),
   jstSecOf(2024, 1, 1, 0, 40, 0)}

Calls ==
  [fn : {"tenDeity"}, dayStem : Stems, otherStem : Stems]
    \cup [fn : {"sexagenary"}, idx : 0..59]
    \cup [fn : {"buildJie12Utc"}, year : JieYears, eph : Ephemerides]
    \cup [fn : {"dayun"}, monthPillar : {sexagenaryFromIndex(i) : i \in 0..59},
          direction : {"forward", "backward"},
          startAgeTenths : StartAgesTenths, ageYears : LookupAges]
    \cup [fn : {"kuuBou"}, idx : 0..59]
    \cup [fn : {"normalizeInput"}, body : PostedBodies]
    \cup [fn : {"direction"}, sex : {"M", "F", ""}, yearStem : Stems]
    \cup [fn : {"nenun"}, now : GridInstants, precision : Precisions,
          tieBreak : TieBreaks, eph : Ephemerides]
    \cup [fn : {"monthBoundary"}, date : YearDays, yearStem : Stems]
    \cup [fn : {"dayPillar"}, date : DayPillarDates, time : DayPillarTimes,
          otherTime : DayPillarTimes, dayBoundaryMode : {"23", "24"},
          boundaryTimeRef : {"standard", "used"}]
    \cup [fn : {"hourPillar"}, t : 0..1439, dayStem : Stems]
    \cup {c \in [fn : {"dayPillarOrder"}, earlier : MidnightBirths,
                   later : MidnightBirths, pref : {"Osaka", "Okinawa", "Tokyo"},
                   timeMode : TimeModes, dayBoundaryMode : DayBoundaryModes,
                   boundaryTimeRef : BoundaryTimeRefs] : c.earlier < c.later}
    \cup [fn : {"findSolarTerm"}, year : SolverYears, angle : {SEKKI_12[k] : k \in 1..12},
          precision : Precisions]

Pending(fn) == arg # NoCall /\ arg.fn = fn /\ out = NoCall

Called(fn) == arg # NoCall /\ arg.fn = fn /\ out # NoCall

\* tenDeityOf(dayStem, otherStem) and the tenDeity of the Phase D handler
CallTenDeity ==
  /\ Pending("tenDeity")
  /\ out' = [relation |-> elementRelation(STEM_INFO(arg.dayStem).elem,
                                          STEM_INFO(arg.otherStem).elem),
             final    |-> tenDeityOf(arg.dayStem, arg.otherStem),
             phaseB   |-> PhaseB_tenDeityOf(arg.dayStem, arg.otherStem),
             phaseD   |-> tenDeity(arg.dayStem, arg.otherStem)]
  /\ UNCHANGED <<arg, chartVars, concVars>>

\* sexagenaryIndex(p.kan, p.shi) for p = sexagenaryFromIndex(i)
CallSexagenary ==
  /\ Pending("sexagenary")
  /\ LET p == sexagenaryFromIndex(arg.idx)
     IN out' = [pair |-> p, index |-> sexagenaryIndex(p.kan, p.shi)]
  /\ UNCHANGED <<arg, chartVars, concVars>>

\* buildJie12Utc(year) of lib/sekki.js and of its two other revisions
CallBuildJie12Utc ==
  /\ Pending("buildJie12Utc")
  /\ out' = [lib     |-> buildJie12Utc(arg.year, arg.eph),
             part004 |-> Part004_buildJie12Utc(arg.year),
             part005 |-> Part005_buildJie12Utc(arg.year)]
  /\ UNCHANGED <<arg, chartVars, concVars>>

\* the decade list and its current entry, as calcLuckAll reports them
\* (findCurrentDayunIndex on buildDayunList) and as the Phase D handler does
\* (pickCurrentDayunIndex on buildDayun; calcAgeYearsAtAsOf never returns a
\* negative age)
CallDayun ==
  /\ Pending("dayun")
  /\ LET final(dayun, currentDayunIndex) ==
           [dayun |-> dayun,
            currentDayunIndex |->
              IF currentDayunIndex < 0 THEN 0 ELSE currentDayunIndex,
            currentDayun |->
              IF currentDayunIndex >= 0 THEN dayun[currentDayunIndex + 1]
              ELSE NULL]
         phaseD(dayun, currentDayunIndex) ==
           [dayun |-> dayun,
            currentDayunIndex |-> currentDayunIndex,
            currentDayun |->
              IF currentDayunIndex >= 0 THEN dayun[currentDayunIndex + 1]
              ELSE NULL]
         finalOf(dayun) ==
           final(dayun, findCurrentDayunIndex(dayun, arg.ageYears))
         phaseDOf(dayun) ==
           phaseD(dayun,
                  pickCurrentDayunIndex(
                    dayun, IF arg.ageYears < 0 THEN 0 ELSE arg.ageYears * 10))
     IN out' = [final  |-> finalOf(buildDayunList(arg.monthPillar,
                                                  arg.direction)),
                phaseD |-> phaseDOf(PhaseD_buildDayun(arg.monthPillar,
                                                      arg.direction,
                                                      arg.startAgeTenths, 0))]
  /\ UNCHANGED <<arg, chartVars, concVars>>

\* the annual list at the instant arg.now, next to the pillar year of a chart
\* born at that instant under the same policy: the final handler, the
\* Phase B+ revision (its list is the final one's) and the Phase D handler,
\* whose body carries the birth time to the minute
CallNenun ==
  /\ Pending("nenun")
  /\ LET body ==
           [DefaultBody EXCEPT !.date = birthOf(arg.now).date,
                               !.time = birthOf(arg.now).time,
                               !.sekkiBoundaryPrecision = arg.precision,
                               !.sekkiBoundaryTieBreak = arg.tieBreak]
         listed(dayPillar, birthYear, year, nenun, idx) ==
           [dayPillar |-> dayPillar,
            birthYear |-> birthYear,
            nenunYearByRisshun |-> year,
            nenun |-> nenun,
            currentNenunIndex |-> idx,
            currentNenun |-> IF idx >= 0 THEN nenun[idx + 1] ELSE NULL]
         final(r) ==
           [dayPillar |-> r.pillars.day,
            birthYear |-> r.meta.used.yearPillarYearUsed,
            nenunYearByRisshun |-> r.derived.luck.current.nenunYearByRisshun,
            nenun |-> r.derived.luck.nenun,
            currentNenunIndex |-> r.derived.luck.current.currentNenunIndex,
            currentNenun |-> r.derived.luck.currentNenun]
         phaseB(r, year) ==
           listed(NULL, r.yearPillarYearUsed, year, buildNenunList(year),
                  findNenunIndex(buildNenunList(year), year))
         phaseD(r) ==
           listed(r.pillars.day, r.yearForPillar, r.nenunYearByRisshun,
                  PhaseD_buildNenunList(r.nenunYearByRisshun,
                                        r.pillars.day.kan),
                  findNenunIndex(
                    PhaseD_buildNenunList(r.nenunYearByRisshun,
                                          r.pillars.day.kan),
                    r.nenunYearByRisshun))
     IN out' = [final  |-> final(handler(body, arg.now, arg.eph)),
                phaseB |-> phaseB(PhaseB_handler(body, arg.eph),
                                  PhaseB_calcNenunYearByRisshun(
                                    nowJstDateParts(arg.now), arg.precision,
                                    arg.eph)),
                phaseD |-> phaseD(PhaseD_handler(body, (arg.now \div 60) * 60,
                                                 arg.eph))]
  /\ UNCHANGED <<arg, chartVars, concVars>>

\* the void pair of the day pillar at cycle index arg.idx, by the two
\* computations of api/meishi.js
CallKuuBou ==
  /\ Pending("kuuBou")
  /\ LET p == sexagenaryFromIndex(arg.idx)
     IN out' = [fromDayPillar |-> calcKuuBouFromDayPillar(p.kan, p.shi),
                fallback      |-> calcKuuBouFallback(p)]
  /\ UNCHANGED <<arg, chartVars, concVars>>

\* calcLuckDirection(sex, yearStem) and calcDirection(yearStem, sex) of the
\* Phase D handler; sex is "" when the body has none
CallDirection ==
  /\ Pending("direction")
  /\ out' = [final  |-> calcLuckDirection(arg.sex, arg.yearStem),
             phaseD |-> calcDirection(arg.yearStem, arg.sex)]
  /\ UNCHANGED <<arg, chartVars, concVars>>

\* the handler on a posted body: normalizeInput throws when the date is not
\* \d{4}-\d{2}-\d{2} or the time not \d{2}:\d{2}(:\d{2})?, and the catch
\* answers { ok: false }; every other body goes on to the chart
CallNormalizeInput ==
  /\ Pending("normalizeInput")
  /\ LET digits(n, k) == n \in 0..(IF k = 4 THEN 9999 ELSE 99)
         dateOk == /\ digits(arg.body.date.y, 4) /\ digits(arg.body.date.m, 2)
                   /\ digits(arg.body.date.d, 2)
         timeOk == \/ arg.body.time = NoTime
                   \/ /\ digits(arg.body.time.hh, 2)
                      /\ digits(arg.body.time.mm, 2)
                      /\ digits(arg.body.time.ss, 2)
     IN out' = IF dateOk /\ timeOk
                 THEN handler(arg.body, now, eph)
                 ELSE [ok |-> FALSE]
  /\ UNCHANGED <<arg, chartVars, concVars>>

CalcInit ==
  /\ arg \in Calls /\ out = NoCall
  /\ ConcStart
  /\ req = DefaultBody /\ now = ClockStart /\ eph = "bracketed"
  /\ resp = NoResp /\ respB = NoResp /\ respD = NoResp /\ respC = NoResp
  /\ respA = NoResp

\* the solvers of the final revision and of part_005 asked for one term:
\* getSolarTermCached(year, angle, precision) and
\* findTimeWhenLongitudeHitsAngleUtc(angle, approxJieCenterUtc(year, angle), 6)
CallFindSolarTerm ==
  /\ Pending("findSolarTerm")
  /\ out' = [final |-> solarTermSearch(arg.year, arg.angle, arg.precision),
             part005 |-> findTimeWhenLongitudeHitsAngleUtc(
                           arg.angle, approxJieCenterUtc(arg.year, arg.angle))]
  /\ UNCHANGED <<arg, chartVars, concVars>>

\* the calendar revision's month pillar of a birth date:
\* getMonthBoundaryByDate(std), then calcMonthPillarFromBoundary
CallMonthBoundary ==
  /\ Pending("monthBoundary")
  /\ LET boundary == getMonthBoundaryByDate(arg.date)
     IN out' = [boundary |-> boundary,
                pillar |-> calcMonthPillarFromBoundary(boundary, arg.yearStem)]
  /\ UNCHANGED <<arg, chartVars, concVars>>

\* calcDayPillar(std, used, dayBoundaryMode, boundaryTimeRef) where the
\* record boundaryTimeRef names holds arg.date and arg.time and the other one
\* the day after at arg.otherTime, and calcDayPillarSimple of arg.date
CallDayPillar ==
  /\ Pending("dayPillar")
  /\ LET ref == [y |-> arg.date.y, m |-> arg.date.m, d |-> arg.date.d,
                 hh |-> arg.time.hh, mm |-> arg.time.mm, ss |-> arg.time.ss]
         next == addDaysJst(arg.date, 1)
         other == [y |-> next.y, m |-> next.m, d |-> next.d,
                   hh |-> arg.otherTime.hh, mm |-> arg.otherTime.mm,
                   ss |-> arg.otherTime.ss]
         std == IF arg.boundaryTimeRef = "standard" THEN ref ELSE other
         used == IF arg.boundaryTimeRef = "standard" THEN other ELSE ref
     IN out' = [final |-> calcDayPillar(std, used, arg.dayBoundaryMode,
                                        arg.boundaryTimeRef),
                simple |-> calcDayPillarSimpleByYMD(arg.date.y, arg.date.m,
                                                    arg.date.d)]
  /\ UNCHANGED <<arg, chartVars, concVars>>

\* the hour pillar of minute t of the day: hourBranchFromTime, then
\* hourStemFromDayStem of the final revision and
\* hourStemFromDayStemAndHourBranch of part_001
CallHourPillar ==
  /\ Pending("hourPillar")
  /\ LET branch == hourBranchFromTime(arg.t \div 60, arg.t % 60)
     IN out' = [branch |-> branch,
                final |-> hourStemFromDayStem(arg.dayStem, branch),
                phaseD |-> hourStemFromDayStemAndHourBranch(arg.dayStem, branch)]
  /\ UNCHANGED <<arg, chartVars, concVars>>

\* two births of one policy and place, the second later than the first,
\* posted to the final handler, to the Phase D handler of part_001 and to
\* the Phase A/B/C handler: the position in the cycle of each day pillar
CallDayPillarOrder ==
  /\ Pending("dayPillarOrder")
  /\ LET body(sec) ==
           [DefaultBody EXCEPT !.date = birthOf(sec).date,
                               !.time = birthOf(sec).time,
                               !.pref = arg.pref, !.timeMode = arg.timeMode,
                               !.dayBoundaryMode = arg.dayBoundaryMode,
                               !.boundaryTimeRef = arg.boundaryTimeRef]
         idx(p) == sexagenaryIndex(p.kan, p.shi)
         both(day(_)) == <<idx(day(arg.earlier)), idx(day(arg.later))>>
         final(sec) == handler(body(sec), now, eph).pillars.day
         phaseD(sec) == PhaseD_handler(body(sec), now, eph).pillars.day
         phaseABC(sec) == PhaseABC_handler(body(sec), eph).pillars.day
     IN out' = [final |-> both(final), phaseD |-> both(phaseD),
                phaseABC |-> both(phaseABC)]
  /\ UNCHANGED <<arg, chartVars, concVars>>

CalcNext ==
  \/ CallTenDeity
  \/ CallSexagenary
  \/ CallBuildJie12Utc
  \/ CallDayun
  \/ CallNenun
  \/ CallKuuBou
  \/ CallDirection
  \/ CallNormalizeInput
  \/ CallFindSolarTerm
  \/ CallMonthBoundary
  \/ CallDayPillar
  \/ CallHourPillar
  \/ CallDayPillarOrder

CalcSpec == CalcInit /\ [][CalcNext]_vars
\* ------------------------------------------------------------------------
\* Properties
\* ------------------------------------------------------------------------
\* the civil and the corrected instant of a body, as the handler forms them
stdOf(body) == parseJstDateTime(body.date, body.time)

usedOf(body) ==
  computeUsedDateTimeJst(stdOf(body), body.timeMode, lonCorrectionMs(body.pref),
                         computeEquationOfTimeMs(stdOf(body)))

\* an instant at the policy precision: its minute or its second
AtPrecision(sec, precision) == IF precision = "minute" THEN sec \div 60 ELSE sec

EqualAtPrecision(t, b, precision) ==
  AtPrecision(t, precision) = AtPrecision(b, precision)

OtherTieBreak(tb) == IF tb = "after" THEN "before" ELSE "after"

WithTieBreak(body, tb) == [body EXCEPT !.sekkiBoundaryTieBreak = tb]

\* the year-start crossing of civil year Y as the solver reports it
YearCrossing(Y, precision) == findSolarTermTimeJst(Y, 315, precision, eph).secJst

\* C1 for a pillar year `year` answered to req and the pillar year `flipped`
\* answered to the same request with the other tieBreak
YearTieBreakRule(year, flipped) ==
  LET t  == usedOf(req)
      pr == req.sekkiBoundaryPrecision
      tb == req.sekkiBoundaryTieBreak
  IN IF EqualAtPrecision(t.sec, YearCrossing(t.y, pr), pr)
       THEN year = (IF tb = "after" THEN t.y ELSE t.y - 1)
       ELSE year = flipped

YearTieBreakFinal ==
  resp # NoResp =>
    YearTieBreakRule(
      resp.meta.used.yearPillarYearUsed,
      handlerCore(WithTieBreak(req, OtherTieBreak(req.sekkiBoundaryTieBreak)),
                  eph).meta.used.yearPillarYearUsed)

YearTieBreakPhaseB ==
  respB # NoResp =>
    YearTieBreakRule(
      respB.yearPillarYearUsed,
      PhaseB_handler(WithTieBreak(req, OtherTieBreak(req.sekkiBoundaryTieBreak)),
                     eph).yearPillarYearUsed)

\* C1: when the corrected instant t and the year-start crossing b of t's
\* civil year Y are equal at the policy precision, the pillar year is Y under
\* tieBreak 'after' and Y-1 under 'before'; when they are not equal, the
\* pillar year is the same under both tieBreak values.  Stated of every
\* revision of the handler that takes the two policies.
C1_YearTieBreak == YearTieBreakFinal /\ YearTieBreakPhaseB

\* the 12 month-boundary events of the civil year Y and of the year before
MonthEvents(Y, precision) ==
  {findSolarTermTimeJst(y, SEKKI_12[k], precision, eph) :
     y \in {Y - 1, Y}, k \in 1..12}

\* an event equal to the instant at the policy precision is reached under
\* 'after' and not yet reached under 'before'
Reached(e, t, precision, tb) ==
  \/ AtPrecision(e.secJst, precision) < AtPrecision(t, precision)
  \/ EqualAtPrecision(e.secJst, t, precision) /\ tb = "after"

LatestReached(t, Y, precision, tb) ==
  LET R == {e \in MonthEvents(Y, precision) : Reached(e, t, precision, tb)}
  IN CHOOSE e \in R : \A f \in R : f.secJst <= e.secJst

\* the branch of the month that starts at the boundary of this angle:
\* risshun opens the tiger month
BranchOfAngle(angle) == (jieIndexOf(angle) + 1) % 12

MonthBoundaryRule(angle, branch) ==
  LET t == usedOf(req)
      e == LatestReached(t.sec, t.y, req.sekkiBoundaryPrecision,
                         req.sekkiBoundaryTieBreak)
  IN angle = e.angle /\ branch = BranchOfAngle(e.angle)

MonthBoundaryFinal ==
  resp # NoResp =>
    MonthBoundaryRule(resp.meta.used.sekkiUsed.angle, resp.pillars.month.shi)

MonthBoundaryPhaseB ==
  respB # NoResp => MonthBoundaryRule(respB.sekkiUsedAngle, respB.month.shi)

\* C2: the month pillar comes from the latest of the month-boundary events
\* that is not in the future of the corrected instant, an event equal to the
\* instant at the policy precision counting as reached under 'after' and as
\* not yet reached under 'before'.  Stated of every revision of the handler
\* that takes the two policies.
C2_MonthBoundaryTieBreak == MonthBoundaryFinal /\ MonthBoundaryPhaseB

\* before the crossing, per precision and tieBreak
BeforeCrossing(t, b, precision, tb) ==
  \/ AtPrecision(t, precision) < AtPrecision(b, precision)
  \/ EqualAtPrecision(t, b, precision) /\ tb = "before"

PillarYearFrom(ref, precision, tb) ==
  IF BeforeCrossing(ref.sec, YearCrossing(ref.y, precision), precision, tb)
    THEN ref.y - 1 ELSE ref.y

\* C3: the year pillar is decided from the reference instant the policy
\* selects: the civil instant under boundaryTimeRef 'standard', the corrected
\* instant under 'used'; when the two instants lie on opposite sides of the
\* crossing the two settings give different pillar years.
C3_YearPillarReference ==
  resp # NoResp =>
    LET pr    == req.sekkiBoundaryPrecision
        tb    == req.sekkiBoundaryTieBreak
        byStd == PillarYearFrom(stdOf(req), pr, tb)
        byUsed == PillarYearFrom(usedOf(req), pr, tb)
        otherRef == IF req.boundaryTimeRef = "standard" THEN "used" ELSE "standard"
        other == handlerCore([req EXCEPT !.boundaryTimeRef = otherRef], eph)
    IN /\ resp.meta.used.yearPillarYearUsed =
            (IF req.boundaryTimeRef = "standard" THEN byStd ELSE byUsed)
       /\ byStd # byUsed =>
            other.meta.used.yearPillarYearUsed # resp.meta.used.yearPillarYearUsed

\* the births of the model in the order of their civil instants
instantOf(b) == parseJstDateTime(b.date, b.time).sec

birthOfReq == [date |-> req.date, time |-> req.time]

LaterBirths == {c \in Births : instantOf(c) > instantOf(birthOfReq)}

NextBirth ==
  CHOOSE c \in LaterBirths : \A d \in LaterBirths : instantOf(c) <= instantOf(d)

WithBirth(body, b) == [body EXCEPT !.date = b.date, !.time = b.time]

\* C4: with location and policy fixed, a later birth instant never gets a
\* smaller pillar year, in the handler, in the Phase D revision and in the
\* calendar revision.  Every birth is compared with the next later birth of
\* the model, so every pair t1 <= t2 is linked by a chain of compared pairs;
\* the births lie on both sides of 1 January, of the risshun the solver
\* finds and of its fallback instant.
C4_YearPillarMonotone ==
  (resp # NoResp /\ LaterBirths # {}) =>
    LET later == WithBirth(req, NextBirth)
    IN /\ resp.meta.used.yearPillarYearUsed
            <= handlerCore(later, eph).meta.used.yearPillarYearUsed
       /\ respD.yearForPillar <= PhaseD_handler(later, now, eph).yearForPillar
       /\ respC.yearPillarYearUsed <= Calendar_handler(later).yearPillarYearUsed

\* a birth just before the fallback instant of the risshun, answered from an
\* ephemeris without a bracket, and the next birth gets the next pillar year
C4_Witness ==
  /\ resp # NoResp /\ LaterBirths # {} /\ eph = "unbracketed"
  /\ resp.meta.used.yearPillarYearUsed
       < handlerCore(WithBirth(req, NextBirth), eph).meta.used.yearPillarYearUsed

RECURSIVE SumOver(_, _)
SumOver(f, S) ==
  IF S = {} THEN 0
  ELSE LET x == CHOOSE x \in S : TRUE IN f[x] + SumOver(f, S \ {x})

\* the stems and hidden stems of the year, month and day pillars
ThreePillarStems(pillars) ==
  3 + Len(pillars.year.zokan) + Len(pillars.month.zokan) + Len(pillars.day.zokan)

\* C5: a request without a birth time gets no hour pillar under any policy,
\* no ten-deity entry and no hidden stems for the hour, and a five-element
\* tally that counts the stems of the three other pillars only.
C5_NoTimeNoHourPillar ==
  (resp # NoResp /\ req.time = NoTime) =>
    /\ resp.pillars.hour = NULL
    /\ resp.derived.tenDeity.hour = NoDeity
    /\ resp.derived.zokanTenDeity.hour = <<>>
    /\ SumOver(resp.derived.fiveElements.counts,
               DOMAIN resp.derived.fiveElements.counts)
         = ThreePillarStems(resp.pillars)
    /\ respD.pillars.hour = NULL
    /\ respD.tenDeity.hour = NoDeity
    /\ respD.zokanTenDeity.hour = <<>>
    /\ SumOver(respD.fiveElements, DOMAIN respD.fiveElements)
         = ThreePillarStems(respD.pillars)

C5_Witness ==
  /\ resp # NoResp /\ req.time = NoTime
  /\ req.timeMode = "true_solar" /\ req.dayBoundaryMode = "23"
  /\ resp.pillars.hour = NULL /\ respD.pillars.hour = NULL

\* C6: in every interleaving of concurrent invocations no lookup of one
\* computation is served from a TERM_CACHE entry another computation stored;
\* TERM_CACHE is empty when a computation is about to make its first lookup
\* and whenever no invocation holds the thread, that is after every
\* invocation has ended, whether it answered a chart, an error, OPTIONS or 405.
C6_CacheIsolation ==
  /\ \A h \in served : h.reader = h.writer
  /\ \A i \in Invocations :
       (pc[i] = "computing" /\ left[i] = plan[i]) => TERM_CACHE = {}
  /\ running = 0 => TERM_CACHE = {}

\* one invocation has ended after its lookups, another one with the same
\* keys is computing and has been served its own entry
C6_Witness ==
  \E i, j \in Invocations :
    /\ i # j
    /\ pc[i] = "done" /\ method[i] = "POST" /\ left[i] = <<>>
    /\ pc[j] = "computing" /\ plan[j] = plan[i]
    /\ [reader |-> j, writer |-> j] \in served

\* C7: the same request answered again gets the same chart, whatever the
\* wall clock: pillars, derived attributes, luck sequences and the
\* 'current' luck entries.
C7_ChartFunctionOfInputs ==
  [][(Post /\ resp # NoResp) => (resp' = resp /\ respD' = respD)]_vars

\* C8: when the solver finds no bracket in either search window the chart is
\* still produced, the year boundary is the fallback instant (noon of the
\* guessed date), and the solar-term event carries a flag that marks it
\* degraded.
C8_DegradedFlagged ==
  (resp # NoResp /\ eph = "unbracketed") =>
    LET u  == usedOf(req)
        ev == findSolarTermTimeJst(u.y, 315, req.sekkiBoundaryPrecision, eph)
    IN /\ resp.ok
       /\ ev.secJst = fallbackSecOf(u.y, 315)
       /\ resp.meta.used.yearBoundary.timeJst = ev.timeJst
       /\ "degraded" \in DOMAIN ev
       /\ "degraded" \in DOMAIN resp.meta.used.yearBoundary

\* the birth one minute after the birth of the request, when the model has it
MinuteLater == birthOf(instantOf(birthOfReq) + 60)

HasMinuteLater == req.time # NoTime /\ MinuteLater \in Births

MonthPillarFlips ==
  resp.pillars.month
    # pillarOut(handlerCore(WithBirth(req, MinuteLater), eph).month)

\* C9 as claimed: for a month-boundary crossing b and two births t1 < b <= t2
\* one minute apart, with location and policy fixed, the month pillars differ.
C9_MonthPillarFlips ==
  (/\ resp # NoResp /\ HasMinuteLater
   /\ \E e \in MonthEvents(stdOf(req).y, req.sekkiBoundaryPrecision) :
        /\ instantOf(birthOfReq) < e.secJst
        /\ e.secJst <= instantOf(MinuteLater))
    => MonthPillarFlips

\* the crossing e is not yet reached at the corrected instant of the request
\* and is reached at the corrected instant of the birth one minute later
CrossedWithinMinute ==
  LET u1 == usedOf(req)
      u2 == usedOf(WithBirth(req, MinuteLater))
      pr == req.sekkiBoundaryPrecision
      tb == req.sekkiBoundaryTieBreak
  IN \E e \in MonthEvents(u2.y, pr) :
       ~Reached(e, u1.sec, pr, tb) /\ Reached(e, u2.sec, pr, tb)

\* C9 amended: for two births one minute apart, with location and policy
\* fixed, such that a month-boundary crossing is not yet reached at the
\* corrected instant of the first and is reached at the corrected instant of
\* the second (at the policy precision, an instant equal to the crossing
\* counting as reached under 'after' only), the month pillars differ.
C9_MonthPillarFlipsAtPrecision ==
  (resp # NoResp /\ HasMinuteLater /\ CrossedWithinMinute) => MonthPillarFlips

\* the first birth lies in the minute of the keichitsu, a month boundary
\* within one pillar year, under 'before'
C9_Witness ==
  /\ resp # NoResp /\ HasMinuteLater /\ CrossedWithinMinute
  /\ req.sekkiBoundaryPrecision = "minute"
  /\ req.sekkiBoundaryTieBreak = "before"
  /\ EqualAtPrecision(usedOf(req).sec,
                      findSolarTermTimeJst(usedOf(req).y, 345, "minute", eph).secJst,
                      "minute")
  /\ resp.pillars.year = pillarOut(handlerCore(WithBirth(req, MinuteLater), eph).year)

\* the largest time correction: the westmost prefecture, 127.68 E, and the
\* most negative value of the equation of time, -855.419 s
WestmostLongitude == 12768
EqTimeFloorMs == 855419
MaxCorrectionMs == (13500 - WestmostLongitude) * 2400 + EqTimeFloorMs
OneMinuteMs == 60 * 1000

Abs(x) == IF x < 0 THEN 0 - x ELSE x

\* every year and month boundary near the civil year Y, as the solver
\* reports it at either precision
BoundaryEvents(Y) ==
  {findSolarTermTimeJst(y, SEKKI_12[k], pr, eph) :
     y \in {Y - 1, Y, Y + 1}, k \in 1..12, pr \in Precisions}

FartherThan(t, ms) ==
  \A e \in BoundaryEvents(t.y) : Abs(t.sec - e.secJst) > ms \div 1000

ReferencePolicy(body) ==
  [body EXCEPT !.timeMode = "standard", !.dayBoundaryMode = "24",
               !.boundaryTimeRef = "used", !.sekkiBoundaryPrecision = "minute",
               !.sekkiBoundaryTieBreak = "after"]

SamePillarsAsReference ==
  LET ref == handlerCore(ReferencePolicy(req), eph)
  IN /\ resp.pillars.year = pillarOut(ref.year)
     /\ resp.pillars.month = pillarOut(ref.month)

\* C10 as claimed: a birth farther from every year and month boundary than
\* the largest time correction gets the same year and month pillars under
\* every combination of timeMode, dayBoundaryMode, boundaryTimeRef, precision
\* and tieBreak.
C10_PolicyIndependent ==
  (resp # NoResp /\ FartherThan(stdOf(req), MaxCorrectionMs))
    => SamePillarsAsReference

\* C10 amended: a birth farther from every year and month boundary than the
\* largest time correction plus one minute gets the same year and month
\* pillars under every combination of the five policies.
C10_PolicyIndependentBeyondMinute ==
  (resp # NoResp /\ FartherThan(stdOf(req), MaxCorrectionMs + OneMinuteMs))
    => SamePillarsAsReference

\* a birth 44 min 38 s after the risshun of 2027, corrected by -42 min 51 s
C10_Witness ==
  /\ resp # NoResp
  /\ FartherThan(stdOf(req), MaxCorrectionMs + OneMinuteMs)
  /\ req.date.y = 2027 /\ req.timeMode = "true_solar" /\ req.pref = "Okinawa"
  /\ req.sekkiBoundaryPrecision = "minute"
  /\ req.sekkiBoundaryTieBreak = "before"
\* ------------------------------------------------------------------------
\* Derived values and luck cycles
\* ------------------------------------------------------------------------
FiveSum(counts) == SumOver(counts, DOMAIN counts)

\* the visible stems of a chart and the hidden stems it reports
StemsOf(pillars) ==
  ThreePillarStems(pillars)
    + (IF pillars.hour = NULL THEN 0 ELSE 1 + Len(pillars.hour.zokan))

\* C11: in every chart the five element counts sum to the number of visible
\* stems (3 without an hour pillar, 4 with one) plus the number of hidden
\* stems of the branches of the pillars there are: the final handler, the
\* Phase D handler and the Phase A+B+C handler.
C11_FiveElementSum ==
  resp # NoResp =>
    /\ FiveSum(resp.derived.fiveElements.counts) = StemsOf(resp.pillars)
    /\ FiveSum(respD.fiveElements) = StemsOf(respD.pillars)
    /\ FiveSum(respA.fiveElements.counts) = StemsOf(respA.pillars)

\* the same of the final and the Phase D handlers alone
FiveElementSumFinalAndPhaseD ==
  resp # NoResp =>
    /\ FiveSum(resp.derived.fiveElements.counts) = StemsOf(resp.pillars)
    /\ FiveSum(respD.fiveElements) = StemsOf(respD.pillars)

TenDeityNames ==
  {"hiken", "gozai", "shokushin", "shokan", "henzai", "seizai",
   "shichisatsu", "seikan", "henin", "inju"}

\* C12: for each of the 100 ordered pairs (day stem, other stem) the
\* classification returns one of the ten named categories, never null, in
\* the final handler and in the Phase D handler, and the element relation is
\* never 'none'.
C12_TenDeityTotal ==
  Called("tenDeity") =>
    /\ out.final \in TenDeityNames
    /\ out.phaseD \in TenDeityNames
    /\ out.relation # "none"

\* a pair whose relation is decided by the last test: the other stem's
\* element dominates the day stem's (metal over wood)
C12_Witness ==
  /\ Called("tenDeity")
  /\ arg.dayStem = 0 /\ arg.otherStem = 7
  /\ out.relation = "other_controls_day"
  /\ out.final \in TenDeityNames /\ out.phaseD \in TenDeityNames

\* C13: for every i in 0..59, sexagenaryIndex(sexagenaryFromIndex(i)) = i,
\* and no other index of the cycle has the pair of i.
C13_SexagenaryRoundTrip ==
  Called("sexagenary") =>
    /\ out.index = arg.idx
    /\ \A j \in 0..59 : sexagenaryFromIndex(j) = out.pair => j = arg.idx

\* the last pair of the cycle, found after 59 misses of the search
C13_Witness ==
  /\ Called("sexagenary")
  /\ arg.idx = 59 /\ out.pair = [kan |-> 9, shi |-> 11] /\ out.index = 59

\* 12 entries, the 12 angles of the month boundaries once each, instants
\* strictly increasing
TwelveDistinctIncreasing(seq) ==
  /\ Len(seq) = 12
  /\ {seq[i].angle : i \in 1..Len(seq)} = {SEKKI_12[k] : k \in 1..12}
  /\ \A i \in 1..(Len(seq) - 1) : msBefore(seq[i].timeUtc, seq[i + 1].timeUtc)

\* C14: for every year, the sequence buildJie12Utc returns has exactly 12
\* entries with 12 pairwise distinct angles (315, 345, 15, ..., 285) in
\* strictly increasing order of their instants: lib/sekki.js, whether its
\* search brackets the crossing or not, and the two other revisions.
C14_TwelveTermsIncreasing ==
  Called("buildJie12Utc") =>
    /\ TwelveDistinctIncreasing(out.lib)
    /\ TwelveDistinctIncreasing(out.part004)
    /\ TwelveDistinctIncreasing(out.part005)

\* the sort has moved entries: lib/sekki.js finds the instants of 195, 225
\* and 255 in the autumn before, so its sequence of 2024 starts with 195 and
\* has 315 in the fifth place
C14_Witness ==
  /\ Called("buildJie12Utc") /\ arg.year = 2024
  /\ out.lib[1].angle = 195 /\ out.lib[5].angle = 315
  /\ out.part004[1].angle = 285
  /\ out.part005[1].angle = 225


\* the shape of a decade list next to its month pillar and direction: ten
\* entries, entry k one more step along the cycle, windows ten years wide
\* and contiguous
DecadeShape(dayun, monthPillar, direction) ==
  LET idx0 == sexagenaryIndex(monthPillar.kan, monthPillar.shi)
      sign == IF direction = "forward" THEN 1 ELSE 0 - 1
  IN /\ Len(dayun) = 10
     /\ \A k \in 0..9 :
          /\ sexagenaryIndex(dayun[k + 1].kan, dayun[k + 1].shi)
               = mod(idx0 + sign * (k + 1), 60)
          /\ dayun[k + 1].ageTo = dayun[k + 1].ageFrom + 10
     /\ \A k \in 1..9 : dayun[k + 1].ageFrom = dayun[k].ageTo

\* C15: the decade list of a chart has 10 entries, entry k the pair
\* monthIndex + (k+1) mod 60 (forward) or monthIndex - (k+1) mod 60
\* (backward), each window 10 years wide, consecutive windows contiguous, and
\* the first window starts at the computed starting age.
C15_DecadeCycle ==
  resp # NoResp =>
    /\ DecadeShape(resp.derived.luck.dayun, resp.pillars.month,
                   resp.derived.luck.direction)
    /\ resp.derived.luck.dayun[1].ageFrom = resp.derived.luck.startAgeYears

\* the shape alone, which the final handler keeps
DecadeShapeKept ==
  resp # NoResp =>
    DecadeShape(resp.derived.luck.dayun, resp.pillars.month,
                resp.derived.luck.direction)

\* the entry a response reports as current is at the reported index, and its
\* window holds the age (ages and windows in the same unit)
CurrentIsIndexed(r) ==
  /\ r.currentDayunIndex \in 0..(Len(r.dayun) - 1)
  /\ r.currentDayun = r.dayun[r.currentDayunIndex + 1]

CurrentHoldsAge(r, age) ==
  /\ r.currentDayun # NULL
  /\ r.currentDayun.ageFrom <= age /\ age < r.currentDayun.ageTo

\* C16: for every age, the decade entry reported as current has a window
\* with ageFrom <= age < ageTo, and the reported currentDayunIndex and the
\* reported currentDayun are the same list element, also below the first
\* window and at or after the end of the last.
C16_CurrentDecade ==
  Called("dayun") =>
    /\ CurrentIsIndexed(out.final) /\ CurrentHoldsAge(out.final, arg.ageYears)
    /\ CurrentIsIndexed(out.phaseD)
    /\ CurrentHoldsAge(out.phaseD,
                       IF arg.ageYears < 0 THEN 0 ELSE arg.ageYears * 10)

\* inside the windows both lookups report the element that holds the age
CurrentDecadeInsideWindows ==
  (/\ Called("dayun")
   /\ arg.ageYears * 10 >= arg.startAgeTenths
   /\ arg.ageYears < 100) =>
    /\ CurrentIsIndexed(out.final) /\ CurrentHoldsAge(out.final, arg.ageYears)
    /\ CurrentIsIndexed(out.phaseD)
    /\ CurrentHoldsAge(out.phaseD, arg.ageYears * 10)

\* both decade lists hold the same pairs, and the Phase D list starts its
\* windows at the starting age
DecadePairsAgree ==
  Called("dayun") =>
    /\ \A k \in 1..10 :
         /\ out.final.dayun[k].kan = out.phaseD.dayun[k].kan
         /\ out.final.dayun[k].shi = out.phaseD.dayun[k].shi
    /\ out.phaseD.dayun[1].ageFrom = arg.startAgeTenths

\* an annual list centred on its reported year: 13 entries, the years P-6
\* to P+6 in order, the current entry the centre one
AnnualWindow(r) ==
  /\ Len(r.nenun) = 13
  /\ \A i \in 1..13 : r.nenun[i].pillarYear = r.nenunYearByRisshun - 7 + i
  /\ r.currentNenunIndex = 6
  /\ r.currentNenun = r.nenun[7]
  /\ r.currentNenun.pillarYear = r.nenunYearByRisshun

\* C17: the annual list holds one entry per year from P-6 to P+6 in
\* increasing order, P being the pillar year of the evaluation instant under
\* the year-boundary rule (precision and tieBreak) applied to a birth
\* instant, and the entry reported as current is the centre one, of year P:
\* the final handler, the Phase B+ revision and the Phase D handler.
C17_AnnualCycle ==
  Called("nenun") =>
    /\ AnnualWindow(out.final) /\ AnnualWindow(out.phaseB)
    /\ AnnualWindow(out.phaseD)
    /\ out.final.nenunYearByRisshun = out.final.birthYear
    /\ out.phaseB.nenunYearByRisshun = out.phaseB.birthYear
    /\ out.phaseD.nenunYearByRisshun = out.phaseD.birthYear

\* the same of the final and the Phase D handlers alone, and the shape of
\* the list in the Phase B+ revision
AnnualCycleFinalAndPhaseD ==
  Called("nenun") =>
    /\ AnnualWindow(out.final) /\ AnnualWindow(out.phaseB)
    /\ AnnualWindow(out.phaseD)
    /\ out.final.nenunYearByRisshun = out.final.birthYear
    /\ out.phaseD.nenunYearByRisshun = out.phaseD.birthYear

\* the two branches no stem of the decade group of idx is paired with
ExcludedBranches(idx) ==
  LET junStart == idx - (idx % 10)
  IN (0..11) \ {sexagenaryFromIndex(i).shi : i \in junStart..(junStart + 9)}

PairSet(pair) == {pair[i] : i \in 1..Len(pair)}

\* the names a void flag of an annual entry could go by
VoidFlagNames == {"isVoidPeriod", "isVoid", "void", "kuuBou"}

\* every entry of the annual list of r has a void flag, true exactly for the
\* branches excluded by the decade group of the day pillar
VoidFlagged(r) ==
  \A i \in 1..Len(r.nenun) :
    \E f \in VoidFlagNames \cap DOMAIN r.nenun[i] :
      r.nenun[i][f]
        = (r.nenun[i].shi
             \in ExcludedBranches(sexagenaryIndex(r.dayPillar.kan,
                                                  r.dayPillar.shi)))

\* C18: every annual luck entry carries a void flag that is true exactly
\* when the entry's branch is one of the two branches excluded by the day
\* pillar's decade group: the final handler and the Phase D handler.
C18_AnnualVoidFlag ==
  Called("nenun") => VoidFlagged(out.final) /\ VoidFlagged(out.phaseD)

\* the void pair of the day-pillar computation alone
VoidPairFromDayPillar ==
  Called("kuuBou") =>
    /\ Len(out.fromDayPillar) = 2
    /\ PairSet(out.fromDayPillar) = ExcludedBranches(arg.idx)

\* C19: for each of the 60 day pillars the void pair is the set of the two
\* branches paired with no stem of the day pillar's decade group (indices
\* idx - idx mod 10 to idx - idx mod 10 + 9), and the day-pillar computation
\* and the fallback computation return the same pair.
C19_VoidPair ==
  Called("kuuBou") =>
    /\ Len(out.fromDayPillar) = 2
    /\ PairSet(out.fromDayPillar) = ExcludedBranches(arg.idx)
    /\ out.fallback = out.fromDayPillar

\* the stems 甲, 丙, 戊, 庚, 壬 by their positions in STEMS
YangStems == {0, 2, 4, 6, 8}

\* C20: for sex M or F the direction is forward exactly when the year stem
\* is yang and sex is M, or the year stem is yin and sex is F, and backward
\* in the two other cases, the yang stems being exactly 甲, 丙, 戊, 庚, 壬:
\* calcLuckDirection of the final handler and calcDirection of Phase D.
C20_DirectionTable ==
  (Called("direction") /\ arg.sex \in {"M", "F"}) =>
    LET forward == \/ arg.yearStem \in YangStems /\ arg.sex = "M"
                   \/ arg.yearStem \notin YangStems /\ arg.sex = "F"
        expected == IF forward THEN "forward" ELSE "backward"
    IN /\ out.final = expected
       /\ out.phaseD = expected
       /\ isYangStem(arg.yearStem) <=> arg.yearStem \in YangStems

\* a woman born in a yin year (乙): forward in both revisions
C20_Witness ==
  /\ Called("direction")
  /\ arg.sex = "F" /\ arg.yearStem = 1
  /\ out.final = "forward" /\ out.phaseD = "forward"

\* ------------------------------------------------------------------------
\* Input validation, solver, calendar engine, pillar rules
\* ------------------------------------------------------------------------
\* a date of the calendar and a time of the day
RealDate(date) ==
  /\ date.m \in 1..12
  /\ date.d \in 1..31
  /\ civilFromDays(julianDayNumber(date.y, date.m, date.d) - EpochJdn)
       = [y |-> date.y, m |-> date.m, d |-> date.d]

RealTime(time) ==
  time = NoTime \/ (time.hh \in 0..23 /\ time.mm \in 0..59 /\ time.ss \in 0..59)

ValidBody(body) ==
  /\ RealDate(body.date) /\ RealTime(body.time)
  /\ body.timeMode \in TimeModes
  /\ body.dayBoundaryMode \in DayBoundaryModes
  /\ body.boundaryTimeRef \in BoundaryTimeRefs
  /\ body.sekkiBoundaryPrecision \in Precisions
  /\ body.sekkiBoundaryTieBreak \in TieBreaks

\* C21: a request whose date or time is malformed or names no date or time
\* (month 13, 30 February, hour 25), or whose policy field holds a value the
\* field does not have, ends with an error response and no chart.
C21_InvalidInputRejected ==
  (Called("normalizeInput") /\ ~ValidBody(arg.body)) => ~out.ok

\* what the handler does reject: a date that is not of the pattern
MalformedDateRejected ==
  (Called("normalizeInput") /\ arg.body.date.m > 99) => ~out.ok

\* ------------------------------------------------------------------------
\* C22: solver accuracy
\* ------------------------------------------------------------------------
\* the instants at which the longitude reaches an angle of SEKKI_12
reachesOf(angle) ==
  {LongitudeReaches[y][jieIndexOf(angle)] : y \in 1..Len(LongitudeReaches)}

\* |a - b| <= ms for instants <<second, millisecond>>
WithinMs(a, b, ms) ==
  /\ ~msBefore(normInstant(a[1], a[2] + ms, MsPerSec), b)
  /\ ~msBefore(normInstant(b[1], b[2] + ms, MsPerSec), a)

policyTolMs == IF arg.precision = "second" THEN 1000 ELSE 60000

\* the final solver: its difference is zero where the longitude reaches the
\* target, and a step holds a sign change when the signs at lo and hi are
\* opposite or one of them is zero
FinalConverges ==
  out.final.bracketed =>
    /\ \E c \in reachesOf(arg.angle) : WithinMs(out.final.result, c, policyTolMs)
    /\ \A i \in 1..Len(out.final.steps) :
         angleDiffSigned(out.final.steps[i].lo, arg.angle)
           * angleDiffSigned(out.final.steps[i].hi, arg.angle) <= 0

\* part_005: its own longitude function is the longitude turned by 180
\* degrees, so it equals the target where the longitude reaches target + 180
Part005Converges ==
  out.part005.bracketed =>
    /\ \E c \in reachesOf((arg.angle + 180) % 360) :
         WithinMs(out.part005.result, c, policyTolMs)
    /\ \A i \in 1..Len(out.part005.steps) :
         LET s == out.part005.steps[i]
         IN \/ Part005_diffZero(s.lo, arg.angle)
            \/ Part005_diffZero(s.hi, arg.angle)
            \/ Part005_diffPositive(s.lo, arg.angle)
                 # Part005_diffPositive(s.hi, arg.angle)

\* C22: whenever a bracket is found, the instant a solver returns lies
\* within the policy precision of an instant at which that solver's own
\* longitude function equals the target angle, and every [lo, hi] of the
\* bisection holds a sign change of the signed difference.
C22_SolverAccuracy ==
  Called("findSolarTerm") => (FinalConverges /\ Part005Converges)

\* the final solver alone does converge on a zero of its difference
FinalSolverConverges ==
  Called("findSolarTerm") => (out.final.bracketed /\ FinalConverges)

\* part_005 ends within 30 s of the instant the longitude reaches the target
\* itself, which is where its signed difference jumps from -180 to +180
Part005EndsOnWrap ==
  Called("findSolarTerm") =>
    /\ out.part005.bracketed
    /\ \E c \in reachesOf(arg.angle) : WithinMs(out.part005.result, c, 30000)
    /\ \A c \in reachesOf((arg.angle + 180) % 360) :
         ~WithinMs(out.part005.result, c, 60000)

\* the solvers step by step end where the tables of their results say
SolverTablesAgree ==
  Called("findSolarTerm") =>
    /\ out.final.result[1]
         = findSolarTermTimeJst(arg.year, arg.angle, arg.precision, "bracketed").secJst
    /\ out.part005.result = Part005_JieTimes[arg.year - FirstJieYear + 1][jieIndexOf(arg.angle)]

\* ------------------------------------------------------------------------
\* C23: the month boundary of the calendar revision
\* ------------------------------------------------------------------------
\* md on or before date in calendar order
OnOrBefore(md, date) == md.m < date.m \/ (md.m = date.m /\ md.d <= date.d)

\* the latest boundary date on or before the date: the list runs 2/4 ...
\* 12/7 in calendar order and ends with 1/6, so from 2/4 on it is the last
\* of the first eleven that is on or before the date, from 1/6 to 2/3 it is
\* 1/6, and before 1/6 it is the 12/7 of the year before
LatestBoundaryOnOrBefore(date) ==
  LET eleven == {k \in 1..11 : OnOrBefore(MONTH_BOUNDARIES[k], date)}
  IN IF eleven # {} THEN MONTH_BOUNDARIES[CHOOSE k \in eleven : \A o \in eleven : o <= k]
     ELSE IF OnOrBefore(MONTH_BOUNDARIES[12], date) THEN MONTH_BOUNDARIES[12]
     ELSE MONTH_BOUNDARIES[11]

\* C23: for every birth date getMonthBoundaryByDate returns the latest of
\* the 12 fixed boundary dates on or before it in calendar order, dates
\* before 1/6 belonging to the 12/7 boundary before them, and the month
\* branch is that boundary's.
C23_MonthBoundaryByDate ==
  Called("monthBoundary") =>
    /\ out.boundary = LatestBoundaryOnOrBefore(arg.date)
    /\ out.pillar.shi = LatestBoundaryOnOrBefore(arg.date).branch

\* what the loop does return: the 1/6 boundary and the ox branch for every
\* date of the year
MonthBoundaryAlwaysLast ==
  Called("monthBoundary") =>
    (out.boundary = MONTH_BOUNDARIES[12] /\ out.pillar.shi = 1)

\* ------------------------------------------------------------------------
\* C24: the ten deities by polarity
\* ------------------------------------------------------------------------
\* the assignment by relation of the elements and polarity of the stems
DeityByPolarity(dayStem, otherStem) ==
  LET same == STEM_INFO(dayStem).yin = STEM_INFO(otherStem).yin
      rel  == elementRelation(STEM_INFO(dayStem).elem, STEM_INFO(otherStem).elem)
  IN CASE rel = "same"               -> IF same THEN "hiken" ELSE "gozai"
       [] rel = "day_creates_other"  -> IF same THEN "shokushin" ELSE "shokan"
       [] rel = "other_creates_day"  -> IF same THEN "henin" ELSE "inju"
       [] rel = "day_controls_other" -> IF same THEN "henzai" ELSE "seizai"
       [] rel = "other_controls_day" -> IF same THEN "shichisatsu" ELSE "seikan"

\* C24: for every pair of stems every ten-deity implementation returns
\* hiken / gozai for the same element, shokushin / shokan when the day stem
\* generates the other, henin / inju when the other generates the day stem,
\* henzai / seizai when the day stem dominates, shichisatsu / seikan when
\* the other dominates, the first name for the same polarity and the second
\* for the opposite.
C24_TenDeityByPolarity ==
  Called("tenDeity") =>
    /\ out.final = DeityByPolarity(arg.dayStem, arg.otherStem)
    /\ out.phaseB = DeityByPolarity(arg.dayStem, arg.otherStem)
    /\ out.phaseD = DeityByPolarity(arg.dayStem, arg.otherStem)

\* tenDeity of the Phase D revision does return that assignment
PhaseDTenDeityByPolarity ==
  Called("tenDeity") => out.phaseD = DeityByPolarity(arg.dayStem, arg.otherStem)

\* tenDeityOf of the final revision and of part_002 return the same names,
\* and differ from the assignment exactly where one element generates or
\* dominates the other towards the day stem or the day stem dominates
FinalTenDeitySwapsThree ==
  Called("tenDeity") =>
    /\ out.final = out.phaseB
    /\ (out.final # DeityByPolarity(arg.dayStem, arg.otherStem))
         <=> out.relation \in {"other_creates_day", "day_controls_other",
                               "other_controls_day"}

\* ------------------------------------------------------------------------
\* C25: the day pillar rule
\* ------------------------------------------------------------------------
\* the reference date moves forward by one day
DayMoved ==
  arg.dayBoundaryMode = "23" /\ arg.time.hh * 60 + arg.time.mm >= 23 * 60

\* (JDN(d') - JDN(1984-02-02)) mod 60
DayIndexFromBase ==
  mod(julianDayNumber(arg.date.y, arg.date.m, arg.date.d)
        + (IF DayMoved THEN 1 ELSE 0) - julianDayNumber(1984, 2, 2), 60)

\* C25: the day pillar is the pair of the cycle at index (JDN(d') -
\* JDN(1984-02-02)) mod 60, d' being the reference date moved forward by one
\* day exactly when the cutover is 23 and the reference time is at or after
\* 23:00; the (JDN + 47) mod 60 calibration and the base-date form give the
\* same pillar for a date, 1984-02-02 is the first pair of the cycle and
\* 1990-02-04 the pair of index 34.
C25_DayPillarRule ==
  Called("dayPillar") =>
    /\ out.final = sexagenaryFromIndex(DayIndexFromBase)
    /\ ~DayMoved => out.final = out.simple
    /\ arg.date = [y |-> 1984, m |-> 2, d |-> 2] => out.simple = [kan |-> 0, shi |-> 0]
    /\ arg.date = [y |-> 1990, m |-> 2, d |-> 4] => out.simple = [kan |-> 4, shi |-> 10]

\* the last day of February of a leap year at 23:00 under cutover 23: the
\* pillar is that of 1 March
C25_Witness ==
  /\ Called("dayPillar")
  /\ arg.date = [y |-> 2024, m |-> 2, d |-> 29]
  /\ arg.time = [hh |-> 23, mm |-> 0, ss |-> 0]
  /\ arg.dayBoundaryMode = "23" /\ arg.boundaryTimeRef = "used"
  /\ out.final = calcDayPillarSimpleByYMD(2024, 3, 1)
  /\ out.final # out.simple

\* ------------------------------------------------------------------------
\* C26: the hour pillar
\* ------------------------------------------------------------------------
\* the stem of the rat hour of a day stem
RatHourStem(dayStem) ==
  CASE dayStem \in {0, 5} -> 0
    [] dayStem \in {1, 6} -> 2
    [] dayStem \in {2, 7} -> 4
    [] dayStem \in {3, 8} -> 6
    [] dayStem \in {4, 9} -> 8

\* C26: for every minute t of the day the hour branch is the branch at
\* floor(((t + 60) mod 1440) / 120), the rat hour covering 23:00-00:59, and
\* the hour stem is the stem at (s0 + branch) mod 10, s0 being the stem of
\* the rat hour of the day stem, in the final revision and in part_001.
C26_HourPillar ==
  Called("hourPillar") =>
    /\ out.branch = ((arg.t + 60) % 1440) \div 120
    /\ out.final = (RatHourStem(arg.dayStem) + out.branch) % 10
    /\ out.phaseD = (RatHourStem(arg.dayStem) + out.branch) % 10

\* 23:00 on a day of the last stem: the rat hour, whose stem is the ninth
C26_Witness ==
  /\ Called("hourPillar")
  /\ arg.t = 23 * 60 /\ arg.dayStem = 9
  /\ out.branch = 0 /\ out.final = 8 /\ out.phaseD = 8

\* ------------------------------------------------------------------------
\* C27: the year and the month decisions at the start of the year
\* ------------------------------------------------------------------------
\* the pillar year is the year before the civil year exactly when the
\* boundary the month pillar comes from is earlier than the risshun of the
\* civil year (instants as the answers carry them, cut to the minute)
YearMonthAgree(civilYear, pillarYear, selected, risshun) ==
  (pillarYear = civilYear - 1) <=> (selected < risshun)

YearMonthAgreeFinal ==
  resp # NoResp =>
    YearMonthAgree(resp.meta.used.y, resp.meta.used.yearPillarYearUsed,
                   resp.meta.used.sekkiUsed.time.timeJst,
                   resp.meta.used.yearBoundary.timeJst)

YearMonthAgreePhaseB ==
  respB # NoResp =>
    YearMonthAgree(respB.usedYear, respB.yearPillarYearUsed,
                   respB.sekkiUsedTime, respB.yearBoundary)

\* C27: for every instant and policy the pillar year is decremented if and
\* only if the boundary selected for the month pillar is earlier than the
\* risshun of the civil year, in the final revision and in part_002.
C27_YearMonthAgree ==
  YearMonthAgreeFinal /\ YearMonthAgreePhaseB

\* no answer of either revision pairs a tiger month opened by this year's
\* risshun with the stem of the year before
NoTigerMonthOfOldYear ==
  /\ resp # NoResp =>
       ~(/\ resp.meta.used.sekkiUsed.angle = 315
         /\ resp.meta.used.sekkiUsed.time.timeJst = resp.meta.used.yearBoundary.timeJst
         /\ resp.meta.used.yearPillarYearUsed = resp.meta.used.y - 1)
  /\ respB # NoResp =>
       ~(/\ respB.sekkiUsedAngle = 315
         /\ respB.sekkiUsedTime = respB.yearBoundary
         /\ respB.yearPillarYearUsed = respB.usedYear - 1)

\* ------------------------------------------------------------------------
\* C28: the starting age of the luck cycles
\* ------------------------------------------------------------------------
\* C28: for every birth instant, direction, precision and tieBreak the
\* minutes to the selected month-boundary event (startDiffMinutes) and the
\* starting age in years are not negative.
C28_StartAgeNotNegative ==
  resp # NoResp =>
    /\ resp.derived.luck.startDiffMinutes >= 0
    /\ resp.derived.luck.startAgeYears >= 0

\* outside the minute of a boundary event the difference is not negative
StartAgeNotNegativeAtSecond ==
  (resp # NoResp /\ resp.input.sekkiBoundaryPrecision = "second") =>
    /\ resp.derived.luck.startDiffMinutes >= 0
    /\ resp.derived.luck.startAgeYears >= 0

\* ------------------------------------------------------------------------
\* C29: the day pillar of a later birth
\* ------------------------------------------------------------------------
\* the date of the second pillar is that of the first or a later one (the
\* births are hours apart, the cycle has 60 days)
NotBackwards(pair) == mod(pair[2] - pair[1], 60) \in {0, 1, 2}

\* C29: with location and policy fixed, a later birth instant never has an
\* earlier calendar date for its day pillar, also when the time correction
\* carries the clock across midnight under the 23:00 cutover.
C29_DayPillarMonotone ==
  Called("dayPillarOrder") =>
    /\ NotBackwards(out.final)
    /\ NotBackwards(out.phaseD)
    /\ NotBackwards(out.phaseABC)

\* the final revision takes the date along with the corrected clock
DayPillarMonotoneFinal ==
  Called("dayPillarOrder") => NotBackwards(out.final)

\* the two earlier revisions keep the order when nothing is corrected or
\* the day changes at midnight
DayPillarMonotoneUncorrected ==
  (Called("dayPillarOrder")
     /\ (arg.timeMode = "standard" \/ arg.dayBoundaryMode = "24")) =>
    (NotBackwards(out.phaseD) /\ NotBackwards(out.phaseABC))

\* ------------------------------------------------------------------------
\* C30: every pillar is a pair of the cycle
\* ------------------------------------------------------------------------
\* one of the 60 pairs: a stem and a branch of the same parity
CyclePair(p) ==
  /\ p.kan \in 0..9 /\ p.shi \in 0..11
  /\ p.kan % 2 = p.shi % 2
  /\ \E i \in 0..59 : sexagenaryFromIndex(i).kan = p.kan
                       /\ sexagenaryFromIndex(i).shi = p.shi

\* C30: the year, month, day and hour pillars of an answer and every entry
\* of its decade and annual lists are pairs of the sexagenary cycle, so the
\* search of sexagenaryIndex for the month pillar finds it and the decade
\* list starts next to it.
C30_PillarsAreCyclePairs ==
  resp # NoResp =>
    /\ CyclePair(resp.pillars.year) /\ CyclePair(resp.pillars.month)
    /\ CyclePair(resp.pillars.day)
    /\ resp.pillars.hour # NULL => CyclePair(resp.pillars.hour)
    /\ \A i \in 1..Len(resp.derived.luck.dayun) : CyclePair(resp.derived.luck.dayun[i])
    /\ \A i \in 1..Len(resp.derived.luck.nenun) : CyclePair(resp.derived.luck.nenun[i])
    /\ LET idx == sexagenaryIndex(resp.pillars.month.kan, resp.pillars.month.shi)
           first == resp.derived.luck.dayun[1]
       IN /\ sexagenaryFromIndex(idx).kan = resp.pillars.month.kan
          /\ sexagenaryFromIndex(idx).shi = resp.pillars.month.shi
          /\ sexagenaryIndex(first.kan, first.shi)
               = mod(idx + (IF resp.derived.luck.direction = "forward" THEN 1 ELSE 0 - 1), 60)

\* an answer with an hour pillar and an ox month, the month of an odd
\* branch before the risshun
C30_Witness ==
  /\ resp # NoResp
  /\ resp.pillars.hour # NULL
  /\ resp.pillars.month.shi = 1 /\ resp.pillars.month.kan % 2 = 1
  /\ Len(resp.derived.luck.dayun) = 10 /\ Len(resp.derived.luck.nenun) = 13
  /\ CyclePair(resp.derived.luck.dayun[10])
====
